---------------------------- MODULE Spec2Model ----------------------------
(***************************************************************************)
(* Model of config-rom-pretty-printer.c: the pipeline of main() that reads *)
(* a Configuration ROM image, detects its byte order, discovers the blocks *)
(* reachable from the bus information block and the root directory, clamps *)
(* overlapping blocks, fills the gaps with orphan blocks and prints every  *)
(* block.                                                                  *)
(*                                                                         *)
(* A quadlet (uint32_t) is the tuple <<b3, b2, b1, b0>> of its four bytes, *)
(* most significant first, so that every mask-and-shift of the source is   *)
(* an arithmetic expression on bytes and no value leaves the range of the  *)
(* model checker's integers.  The buffer `data' holds the quadlets as the  *)
(* host loads them (a little-endian host, where be32toh() reverses the     *)
(* bytes of a quadlet).                                                    *)
(***************************************************************************)
EXTENDS Integers, Sequences, FiniteSets, TLC

VARIABLES
    stdin,      \* the environment: [tty, result, image] (isatty(), read())
    pc,         \* position of main()
    data,       \* uint8_t data[1024], as the quadlets that were read
    length,     \* ssize_t length, the return value of read()
    junk,       \* the value an uninitialised quadlet of data[] happens to hold
    head,       \* struct list_head head: the block list, in list order
    stack,      \* the activations of detect_ieee1212_directory_entries()
    cursor,     \* the list position of the loop in progress (fill, print)
    err,        \* int err of main()
    status,     \* the exit status of the process
    out,        \* the lines written to standard output
    errout,     \* the messages written to standard error
    ev          \* what the last step did (history)

vars == <<stdin, pc, data, length, junk, head, stack, cursor, err, status, out, errout, ev>>

-----------------------------------------------------------------------------
(* Bounds of the model. *)

\* The longest image, in quadlets, of the exhaustively enumerated family.
MaxQuads == 5

-----------------------------------------------------------------------------
(* Quadlets and their fields. *)

Byte == 0..255

be32toh(q) == <<q[4], q[3], q[2], q[1]>>

KEY_TYPE_IMMEDIATE  == 0
KEY_TYPE_CSR_OFFSET == 1
KEY_TYPE_LEAF       == 2
KEY_TYPE_DIRECTORY  == 3

\* A decoding that loses the value of the entry.
decode_directory_entry_no_value(quadlet) ==
    [key_type |-> quadlet[1] \div 64,
     key_id   |-> quadlet[1] % 64,
     value    |-> 0]

\* decode_directory_entry(): key_type = bits 31..30, key_id = bits 29..24,
\* value = bits 23..0.
decode_directory_entry(quadlet) ==
    [key_type |-> quadlet[1] \div 64,
     key_id   |-> quadlet[1] % 64,
     value    |-> quadlet[2] * 65536 + quadlet[3] * 256 + quadlet[4]]

\* The quadlet at a byte offset of data[].  A quadlet the read() did not fill
\* is uninitialised stack memory.
QuadletAt(d, j, offset) ==
    IF offset \div 4 + 1 <= Len(d) THEN d[offset \div 4 + 1] ELSE j

-----------------------------------------------------------------------------
(* The block list. *)

IEEE1212_BUS_INFO_BLOCK       == "IEEE1212_BUS_INFO_BLOCK"
IEEE1212_ROOT_DIRECTORY_BLOCK == "IEEE1212_ROOT_DIRECTORY_BLOCK"
IEEE1212_LEAF_BLOCK           == "IEEE1212_LEAF_BLOCK"
IEEE1212_DIRECTORY_BLOCK      == "IEEE1212_DIRECTORY_BLOCK"
ORPHAN_BLOCK                  == "ORPHAN_BLOCK"

\* The union `data' of struct ieee1212_block is written for leaf and directory
\* blocks only; NoKey and NoParent stand for the fields nobody writes or reads.
NoKey    == -1
NoParent == -1

\* A descriptor that keeps no parent.
ieee1212_block_without_parent(offset, block_length, block_type, key_id, parent) ==
    [offset |-> offset, length |-> block_length, block_type |-> block_type,
     key_id |-> key_id, parent |-> NoParent]

\* struct ieee1212_block.  A parent pointer is modelled by the offset of the
\* block it points to.
ieee1212_block(offset, block_length, block_type, key_id, parent) ==
    [offset |-> offset, length |-> block_length, block_type |-> block_type,
     key_id |-> key_id, parent |-> parent]

RECURSIVE insert_cursor(_, _, _)
\* The loop of insert_block_by_offset(): the list position after which the
\* entry is linked.
insert_cursor(list, entry, c) ==
    IF c = Len(list) \/ list[c + 1].offset > entry.offset
    THEN c
    ELSE insert_cursor(list, entry, c + 1)

\* An insertion at the end of the list, whatever the offset.
insert_block_at_end(list, entry) == Append(list, entry)

insert_block_by_offset(list, entry) ==
    IF list = <<>>
    THEN <<entry>>
    ELSE LET c == insert_cursor(list, entry, 1)
         IN  SubSeq(list, 1, c) \o <<entry>> \o SubSeq(list, c + 1, Len(list))

\* 4 * (quadlet & 0xff000000) >> 24 in uint32_t arithmetic: the product is
\* taken modulo 2^32 before the shift, which keeps (4 * b3) mod 2^8.
detect_ieee1212_bus_info_block_length(quadlet) ==
    4 + ((4 * quadlet[1]) % 256)

\* A block length that is one quadlet more than the header declares.
detect_ieee1212_block_length_long(quadlet) ==
    8 + ((4 * (quadlet[1] * 256 + quadlet[2])) % 65536)

\* 4 * (quadlet & 0xffff0000) >> 16 in uint32_t arithmetic: the product is
\* taken modulo 2^32 before the shift, which keeps (4 * field) mod 2^16.
detect_ieee1212_block_length(quadlet) ==
    4 + ((4 * (quadlet[1] * 256 + quadlet[2])) % 65536)

\* A lookup that never finds the offset.
block_is_listed_never(list, block_offset) == FALSE

\* LIST_FOREACH(entry, head, list) if (entry->offset == block_offset) return 0;
block_is_listed(list, block_offset) ==
    \E k \in 1..Len(list) : list[k].offset = block_offset

-----------------------------------------------------------------------------
(* The inputs. *)

\* Bus information headers: bus_info_length 0, bus_info_length 1 (crc_length 1),
\* and bus_info_length 64.
BusInfoHeaders == { <<0, 0, 0, 0>>, <<1, 1, 0, 1>>, <<64, 0, 0, 0>> }

\* The bus name "1394" in host order, the same bytes reversed, and 0x00001394.
BUS_NAME_1394         == <<49, 51, 57, 52>>
BUS_NAME_1394_SWAPPED == <<52, 57, 51, 49>>
QUADLET_1394          == <<0, 0, 19, 148>>

\* Quadlets that are read as block headers and as directory entries:
\*   <<0, n, 0, 0>>    header of n quadlets      immediate entry, key id 0
\*   <<128, 0, 0, 1>>  header, length 0x8000     leaf entry, key id 0, next quadlet
\*   <<192, 0, 0, 1>>  header, length 0xc000     directory entry, key id 0, next quadlet
\*   <<209, 0, 0, 2>>  header, length 0xd100     unit directory entry, second next quadlet
Quadlets ==
    { <<0, 0, 0, 0>>, <<0, 1, 0, 0>>, <<0, 2, 0, 0>>,
      <<128, 0, 0, 1>>, <<192, 0, 0, 1>>, <<209, 0, 0, 2>> }

BusNameQuadlets == { <<0, 0, 0, 0>>, BUS_NAME_1394, BUS_NAME_1394_SWAPPED, QUADLET_1394 }

\* What quadlet 1 is chosen from: a bus name when the bus information block
\* holds it, the header of the root directory (or 0x00001394) otherwise.
SecondQuadlets(header) ==
    IF detect_ieee1212_bus_info_block_length(header) > 4
    THEN BusNameQuadlets
    ELSE Quadlets \cup {QUADLET_1394}

\* The values an uninitialised quadlet of data[] is given.
JunkQuadlets == { <<0, 0, 0, 0>>, QUADLET_1394 }

RECURSIVE Images(_)
\* The images of n quadlets: a bus information header, the quadlet after it,
\* then any quadlets.
Images(n) ==
    IF n = 1
    THEN { <<h>> : h \in BusInfoHeaders }
    ELSE UNION { { Append(s, q) : q \in (IF n = 2 THEN SecondQuadlets(s[1]) ELSE Quadlets) } :
                 s \in Images(n - 1) }

\* Scenario E1 of the specification, E1 with every quadlet byte-reversed (E2),
\* and both followed by an empty root directory.
E1 == << <<4, 4, 4, 0>>, <<49, 51, 57, 52>>, <<0, 100, 220, 0>>, <<8, 0, 39, 139>>,
         <<0, 0, 0, 1>> >>

ScenarioImages ==
    { E1, [i \in 1..Len(E1) |-> be32toh(E1[i])],
      Append(E1, <<0, 0, 0, 0>>),
      Append([i \in 1..Len(E1) |-> be32toh(E1[i])], <<0, 0, 0, 0>>) }

\* Images with CRC fields that match: a bus information block of six quadlets
\* after the header and a root directory of one entry; the same with both
\* CRC fields one too high; and a root directory that declares two entries,
\* with the CRC of the two, whose first entry references the second as a leaf.
LongBusInfoBody ==
    << <<49, 51, 57, 52>>, <<0, 100, 220, 0>>, <<8, 0, 39, 139>>, <<0, 0, 0, 1>>,
       <<0, 0, 0, 1>>, <<0, 0, 0, 2>> >>

CrcImages ==
    { << <<6, 6, 226, 105>> >> \o LongBusInfoBody
         \o << <<0, 1, 139, 253>>, <<3, 0, 0, 1>> >>,
      << <<6, 6, 226, 106>> >> \o LongBusInfoBody
         \o << <<0, 1, 139, 254>>, <<3, 0, 0, 1>> >>,
      << <<6, 6, 226, 105>> >> \o LongBusInfoBody
         \o << <<0, 2, 16, 3>>, <<129, 0, 0, 1>>, <<0, 0, 0, 0>> >> }

\* Directory entries of the unit family:
\*   pointers to the next quadlet under the keys unit (0x11), feature (0x1a),
\*   vendor (0x03), dependent info (0x14) and 0x00;
\*   a first entry: immediate key 0x00, vendor (0x03) 0x000000, or specifier
\*   id (0x12) of the 1394 TA, 0x00a02d;
\*   a second entry: immediate specifier id or vendor of INCITS, 0x00609e;
\*   a third entry: immediate version (0x13) of SBP-2, 0x010483, or 0x000000;
\*   the immediate entry 0x14 (the logical unit number of SBP-2).
UnitPointers ==
    { <<209, 0, 0, 1>>, <<218, 0, 0, 1>>, <<195, 0, 0, 1>>, <<212, 0, 0, 1>>,
      <<192, 0, 0, 1>> }

FirstEntries == { <<0, 0, 0, 0>>, <<3, 0, 0, 0>>, <<18, 0, 160, 45>> }

SpecifierEntries == { <<18, 0, 96, 158>>, <<3, 0, 96, 158>> }

VersionEntries == { <<19, 1, 4, 131>>, <<19, 0, 0, 0>> }

LOGICAL_UNIT_NUMBER_ENTRY == <<20, 0, 0, 0>>

\* The four entries of a directory of the unit family.
UnitEntries ==
    { <<e1, e2, e3, LOGICAL_UNIT_NUMBER_ENTRY>> :
        e1 \in FirstEntries, e2 \in SpecifierEntries, e3 \in VersionEntries }

\* The unit family: an empty bus information header, then
\*   a root directory of the four entries;
\*   a root directory of one pointer to a directory of the four entries;
\*   the same with a fifth entry, a pointer to a directory of one entry 0x14.
UnitImages ==
    { << <<0, 0, 0, 0>>, <<0, 4, 0, 0>> >> \o es : es \in UnitEntries }
    \cup
    { << <<0, 0, 0, 0>>, <<0, 1, 0, 0>>, p, <<0, 4, 0, 0>> >> \o es :
        p \in UnitPointers, es \in UnitEntries }
    \cup
    { << <<0, 0, 0, 0>>, <<0, 1, 0, 0>>, p, <<0, 5, 0, 0>> >> \o es
         \o << c, <<0, 1, 0, 0>>, LOGICAL_UNIT_NUMBER_ENTRY >> :
        p \in UnitPointers, es \in UnitEntries, c \in UnitPointers }

\* An image whose blocks are found out of order: the root directory references
\* a unit directory at the seventh quadlet, then a leaf at the fifth; the
\* sixth quadlet is referenced by nothing.
OrderImages ==
    { << <<0, 0, 0, 0>>, <<0, 2, 0, 0>>, <<209, 0, 0, 4>>, <<128, 0, 0, 1>>,
         <<0, 0, 0, 0>>, <<0, 0, 0, 0>>, <<0, 0, 0, 0>> >> }

\* Logical unit number entries of SBP-2: device types 0x00, 0x05, 0x13 and
\* 0x1e with logical unit 0, and device type 0x00 with logical unit 0x1e.
LogicalUnitEntries ==
    { <<20, 0, 0, 0>>, <<20, 5, 0, 0>>, <<20, 19, 0, 0>>, <<20, 30, 0, 0>>,
      <<20, 0, 0, 30>> }

\* A unit directory of SBP-2 with one logical unit number entry.
LogicalUnitImages ==
    { << <<0, 0, 0, 0>>, <<0, 1, 0, 0>>, <<209, 0, 0, 1>>, <<0, 3, 0, 0>>,
         <<18, 0, 96, 158>>, <<19, 1, 4, 131>>, lun >> : lun \in LogicalUnitEntries }

\* Text quadlets: four letters, letters before '\0' bytes, letters with
\* '\0' bytes between and before them, no letter.
TextQuadlets ==
    { <<65, 66, 67, 68>>, <<65, 66, 0, 0>>, <<65, 0, 66, 0>>, <<0, 65, 0, 66>>,
      <<0, 0, 0, 0>> }

\* A root directory with a descriptor leaf: a textual descriptor in minimal
\* ASCII with one text quadlet.
TextImages ==
    { << <<0, 0, 0, 0>>, <<0, 1, 0, 0>>, <<129, 0, 0, 1>>, <<0, 3, 0, 0>>,
         <<0, 0, 0, 0>>, <<0, 0, 0, 0>>, text >> : text \in TextQuadlets }

\* A bus information block of IEEE 1394 whose generation field is 1 (and spd
\* is 2), followed by an empty root directory.
GenerationImages ==
    { << <<4, 4, 0, 0>>, <<49, 51, 57, 52>>, <<0, 100, 220, 18>>, <<8, 0, 39, 139>>,
         <<0, 0, 0, 1>>, <<0, 0, 0, 0>> >> }

\* Standard input: a terminal, a failing read(), an empty file, or an image.
TtyInput  == [tty |-> TRUE,  result |-> 0,  image |-> <<>>]
FailInput == [tty |-> FALSE, result |-> -1, image |-> <<>>]
EofInput  == [tty |-> FALSE, result |-> 0,  image |-> <<>>]

\* read() returns all the bytes of an image.
WholeInput(im) == [tty |-> FALSE, result |-> 4 * Len(im), image |-> im]

\* read() returns two bytes less: the last quadlet of data[] is half
\* uninitialised (images whose last quadlet is then zero).
ShortInput(im) == [tty |-> FALSE, result |-> 4 * Len(im) - 2, image |-> im]

RomInputs ==
    UNION { { WholeInput(im) : im \in Images(n) }
            \cup { ShortInput(im) : im \in { x \in Images(n) : x[n] = <<0, 0, 0, 0>> } } :
            n \in 1..MaxQuads }

Inputs ==
    {TtyInput, FailInput, EofInput} \cup RomInputs
    \cup { WholeInput(im) : im \in ScenarioImages \cup CrcImages \cup UnitImages
                                \cup OrderImages \cup LogicalUnitImages
                                \cup TextImages \cup GenerationImages }

-----------------------------------------------------------------------------
(* main(), up to the block list. *)

EXIT_SUCCESS == "EXIT_SUCCESS"
EXIT_FAILURE == "EXIT_FAILURE"
Running      == "running"

OK     == "0"
EINVAL == "-EINVAL"
ENOSPC == "-ENOSPC"
ENOMEM == "-ENOMEM"

TTY_MESSAGE == "A terminal is detected for standard input."

\* format_bus_info_block() reads quadlet[1] to quadlet[4] of the buffer whatever
\* was read, so what the uninitialised part of data[] holds shows for images
\* shorter than five quadlets; for longer images it is never printed.
Init ==
    /\ stdin \in Inputs
    /\ junk \in (IF stdin.result < 20 THEN JunkQuadlets ELSE { <<0, 0, 0, 0>> })
    /\ pc = "isatty"
    /\ data = <<>>
    /\ length = 0
    /\ head = <<>>
    /\ stack = <<>>
    /\ cursor = 0
    /\ err = OK
    /\ status = Running
    /\ out = <<>>
    /\ errout = <<>>
    /\ ev = "start"

\* if (isatty(fd)) { fprintf(stderr, ...); return EXIT_FAILURE; }
Isatty ==
    /\ pc = "isatty"
    /\ IF stdin.tty
       THEN /\ errout' = Append(errout, TTY_MESSAGE)
            /\ status' = EXIT_FAILURE
            /\ pc' = "done"
            /\ ev' = "tty"
       ELSE /\ pc' = "read"
            /\ ev' = "notty"
            /\ UNCHANGED <<errout, status>>
    /\ UNCHANGED <<stdin, data, length, junk, head, stack, cursor, err, out>>

\* length = read(fd, data, sizeof(data)); if (length <= 0) return EXIT_FAILURE;
Read ==
    /\ pc = "read"
    /\ length' = stdin.result
    /\ IF stdin.result <= 0
       THEN /\ status' = EXIT_FAILURE
            /\ pc' = "done"
            /\ ev' = "noinput"
            /\ UNCHANGED data
       ELSE /\ data' = stdin.image
            /\ pc' = "endian"
            /\ ev' = "read"
            /\ UNCHANGED status
    /\ UNCHANGED <<stdin, junk, head, stack, cursor, err, out, errout>>

\* const uint32_t quadlet = ((uint32_t *)data)[offset + 1]; return quadlet == 0x1394;
bus_info_block_is_big_endian(d, j, offset) ==
    QuadletAt(d, j, 4 * (offset + 1)) = QUADLET_1394

\* for (i = 0; i < length / 4; ++i) quadlet[i] = be32toh(quadlet[i]);
SwapQuadlets(d, len) ==
    [i \in 1..Len(d) |-> IF i <= len \div 4 THEN be32toh(d[i]) ELSE d[i]]

\* The buffer main() hands to detect_ieee1212_blocks() for the buffer read.
main_endian(d, j, len) ==
    IF bus_info_block_is_big_endian(d, j, 0) THEN SwapQuadlets(d, len) ELSE d

Endian ==
    /\ pc = "endian"
    /\ data' = main_endian(data, junk, length)
    /\ ev' = IF bus_info_block_is_big_endian(data, junk, 0)
             THEN "swapped" ELSE "kept"
    /\ pc' = "detect_bus_info"
    /\ UNCHANGED <<stdin, length, junk, head, stack, cursor, err, status, out, errout>>

\* A failing step of main(): goto end.
GotoEnd(e, what) ==
    /\ err' = e
    /\ pc' = "end"
    /\ stack' = <<>>
    /\ ev' = what

\* An activation of detect_ieee1212_directory_entries(): the directory block
\* (parent), the offset of its first entry, the entry count and the loop index.
Activation(block) ==
    [parent |-> block.offset, directory_offset |-> block.offset + 4,
     quadlet_count |-> (block.length - 4) \div 4, i |-> 0]

\* detect_ieee1212_blocks(), first half: the bus information block.
DetectBusInfo ==
    /\ pc = "detect_bus_info"
    /\ LET block_length ==
               detect_ieee1212_bus_info_block_length(QuadletAt(data, junk, 0))
       IN  \/ /\ 0 + block_length > length
              /\ GotoEnd(EINVAL, "bus_info:EINVAL")
              /\ UNCHANGED head
           \/ /\ 0 + block_length <= length
              /\ GotoEnd(ENOMEM, "bus_info:ENOMEM")
              /\ UNCHANGED head
           \/ /\ 0 + block_length <= length
              /\ head' = insert_block_by_offset(head,
                    ieee1212_block(0, block_length, IEEE1212_BUS_INFO_BLOCK,
                                   NoKey, NoParent))
              /\ pc' = "detect_root"
              /\ ev' = "bus_info"
              /\ UNCHANGED <<err, stack>>
    /\ UNCHANGED <<stdin, data, length, junk, cursor, status, out, errout>>

\* detect_ieee1212_blocks(), second half: the root directory block, and the
\* call of detect_ieee1212_directory_entries() for it.
DetectRoot ==
    /\ pc = "detect_root"
    /\ LET offset == head[1].length
           block_length ==
               detect_ieee1212_block_length(QuadletAt(data, junk, offset))
           entry == ieee1212_block(offset, block_length,
                                   IEEE1212_ROOT_DIRECTORY_BLOCK, NoKey, NoParent)
       IN  \/ /\ offset + block_length > length
              /\ GotoEnd(EINVAL, "root:EINVAL")
              /\ UNCHANGED head
           \/ /\ offset + block_length <= length
              /\ GotoEnd(ENOMEM, "root:ENOMEM")
              /\ UNCHANGED head
           \/ /\ offset + block_length <= length
              /\ head' = insert_block_by_offset(head, entry)
              /\ stack' = <<Activation(entry)>>
              /\ pc' = "detect_entries"
              /\ ev' = "root"
              /\ UNCHANGED err
    /\ UNCHANGED <<stdin, data, length, junk, cursor, status, out, errout>>

\* The activation on top of the stack, and the stack with its loop index advanced.
Top(stk) == stk[Len(stk)]

Advance(stk) == [stk EXCEPT ![Len(stk)].i = @ + 1]

\* One iteration of the loop of detect_ieee1212_directory_entries(), with the
\* call of detect_ieee1212_leaf_block() or detect_ieee1212_directory_block()
\* it makes.  A directory block that is new starts an activation of its own.
DetectEntry ==
    /\ pc = "detect_entries"
    /\ stack # <<>>
    /\ Top(stack).i < Top(stack).quadlet_count
    /\ LET entry_offset == Top(stack).directory_offset + Top(stack).i * 4
           e == decode_directory_entry(QuadletAt(data, junk, entry_offset))
           block_offset == entry_offset + 4 * e.value
           block_length ==
               detect_ieee1212_block_length(QuadletAt(data, junk, block_offset))
           entry == ieee1212_block(block_offset, block_length,
                        IF e.key_type = KEY_TYPE_LEAF
                        THEN IEEE1212_LEAF_BLOCK ELSE IEEE1212_DIRECTORY_BLOCK,
                        e.key_id, Top(stack).parent)
           fits == block_offset < length /\ block_offset + block_length <= length
       IN  IF e.key_type \notin {KEY_TYPE_LEAF, KEY_TYPE_DIRECTORY}
           THEN /\ stack' = Advance(stack)
                /\ ev' = "entry:value"
                /\ UNCHANGED <<head, err, pc>>
           ELSE \/ /\ block_offset >= length
                   /\ GotoEnd(ENOSPC, "entry:ENOSPC")
                   /\ UNCHANGED head
                \/ /\ block_offset < length
                   /\ block_offset + block_length > length
                   /\ GotoEnd(EINVAL, "entry:EINVAL")
                   /\ UNCHANGED head
                \/ /\ fits
                   /\ block_is_listed(head, block_offset)
                   /\ stack' = Advance(stack)
                   /\ ev' = "entry:listed"
                   /\ UNCHANGED <<head, err, pc>>
                \/ /\ fits
                   /\ ~block_is_listed(head, block_offset)
                   /\ GotoEnd(ENOMEM, "entry:ENOMEM")
                   /\ UNCHANGED head
                \/ /\ fits
                   /\ ~block_is_listed(head, block_offset)
                   /\ head' = insert_block_by_offset(head, entry)
                   /\ stack' = IF e.key_type = KEY_TYPE_DIRECTORY
                               THEN Append(Advance(stack), Activation(entry))
                               ELSE Advance(stack)
                   /\ ev' = IF e.key_type = KEY_TYPE_DIRECTORY
                            THEN "entry:directory" ELSE "entry:leaf"
                   /\ UNCHANGED <<err, pc>>
    /\ UNCHANGED <<stdin, data, length, junk, cursor, status, out, errout>>

\* The loop of detect_ieee1212_directory_entries() is over: return 0, to the
\* loop of the enclosing directory or, for the root directory, to main().
DetectReturn ==
    /\ pc = "detect_entries"
    /\ stack # <<>>
    /\ Top(stack).i >= Top(stack).quadlet_count
    /\ stack' = SubSeq(stack, 1, Len(stack) - 1)
    /\ pc' = IF Len(stack) = 1 THEN "normalize" ELSE "detect_entries"
    /\ ev' = "return"
    /\ UNCHANGED <<stdin, data, length, junk, head, cursor, err, status, out, errout>>

\* next_offset of normalize_blocks() and fulfill_orphan_blocks().
next_offset(list, k, len) ==
    IF k < Len(list) THEN list[k + 1].offset ELSE len

\* A normalization that sets every length to the distance to the next block.
normalize_blocks_stretched(list, len) ==
    [k \in 1..Len(list) |->
        [list[k] EXCEPT !.length = next_offset(list, k, len) - list[k].offset]]

\* A normalization that shortens nothing.
normalize_blocks_skipped(list, len) == list

normalize_blocks(list, len) ==
    [k \in 1..Len(list) |->
        IF list[k].offset + list[k].length > next_offset(list, k, len)
        THEN [list[k] EXCEPT !.length = next_offset(list, k, len) - list[k].offset]
        ELSE list[k]]

Normalize ==
    /\ pc = "normalize"
    /\ head' = normalize_blocks(head, length)
    /\ pc' = "fill"
    /\ cursor' = 1
    /\ ev' = "normalized"
    /\ UNCHANGED <<stdin, data, length, junk, stack, err, status, out, errout>>

\* An orphan block that is as long as the distance between the two blocks.
orphan_block_wide(list, k, len) ==
    ieee1212_block(list[k].offset + list[k].length,
                   next_offset(list, k, len) - list[k].offset,
                   ORPHAN_BLOCK, NoKey, NoParent)

\* The orphan block fulfill_orphan_blocks() makes after list[k].
orphan_block(list, k, len) ==
    ieee1212_block(list[k].offset + list[k].length,
                   next_offset(list, k, len) - (list[k].offset + list[k].length),
                   ORPHAN_BLOCK, NoKey, NoParent)

\* One iteration of the loop of fulfill_orphan_blocks().
Fill ==
    /\ pc = "fill"
    /\ cursor <= Len(head)
    /\ \/ /\ head[cursor].offset + head[cursor].length >= next_offset(head, cursor, length)
          /\ cursor' = cursor + 1
          /\ ev' = "fill:next"
          /\ UNCHANGED <<head, err, pc, stack>>
       \/ /\ head[cursor].offset + head[cursor].length < next_offset(head, cursor, length)
          /\ GotoEnd(ENOMEM, "fill:ENOMEM")
          /\ UNCHANGED <<head, cursor>>
       \/ /\ head[cursor].offset + head[cursor].length < next_offset(head, cursor, length)
          /\ head' = insert_block_by_offset(head, orphan_block(head, cursor, length))
          /\ ev' = "fill:orphan"
          /\ UNCHANGED <<cursor, err, pc, stack>>
    /\ UNCHANGED <<stdin, data, length, junk, status, out, errout>>

\* fulfill_orphan_blocks() returns 0.
FillReturn ==
    /\ pc = "fill"
    /\ cursor > Len(head)
    /\ pc' = "print_alloc"
    /\ cursor' = 1
    /\ ev' = "filled"
    /\ UNCHANGED <<stdin, data, length, junk, head, stack, err, status, out, errout>>

-----------------------------------------------------------------------------
(* Lines.  A line of output is a record of what its text is made of: the    *)
(* prefix (the printed offset and the raw quadlet, or blanks), the kind of  *)
(* line, the specification name and the key name put in front, the content  *)
(* formatter applied and the numbers shown.                                 *)

IEEE1212_CONFIG_ROM_OFFSET == 1024
INVALID_KEY_ID == 255
\* 0xffffffff, which no 24-bit value of a directory entry equals.
INVALID_KEY_VALUE == -1
UNSPECIFIED_ENTRY_NAME == "(unspecified)"
\* A NULL spec_name or key name.
NULL == ""

\* format_line_prefix(): "%3lx  %08x" of offset + 0x400 and the quadlet, and
\* two blanks when add_delimiter.
format_line_prefix(offset, quadlet, add_delimiter, kind, spec_name, name, fmt, info) ==
    [off |-> offset + IEEE1212_CONFIG_ROM_OFFSET, quad |-> quadlet,
     delim |-> add_delimiter, kind |-> kind, spec |-> spec_name, name |-> name,
     fmt |-> fmt, info |-> info]

\* format_blank_prefix(): blanks of the width of a prefix.
format_blank_prefix(kind, spec_name, name, info) ==
    [off |-> -1, quad |-> <<>>, delim |-> TRUE, kind |-> kind, spec |-> spec_name,
     name |-> name, fmt |-> NULL, info |-> info]

\* printf("\n") after each block.
EmptyLine ==
    [off |-> -1, quad |-> <<>>, delim |-> FALSE, kind |-> "empty", spec |-> NULL,
     name |-> NULL, fmt |-> NULL, info |-> <<>>]

format_horizontal_line == format_blank_prefix("rule", NULL, NULL, <<>>)

\* Bit i of a natural.
Bit(a, i) == (a \div (2 ^ i)) % 2

\* a ^ b on naturals below 2^20 (crc << 4 has at most 20 bits).
Xor(a, b) ==
    IF a = 0 THEN b
    ELSE IF b = 0 THEN a
    ELSE LET x(i) == ((Bit(a, i) + Bit(b, i)) % 2) * (2 ^ i)
         IN  x(0) + x(1) + x(2) + x(3) + x(4) + x(5) + x(6) + x(7) + x(8) + x(9)
             + x(10) + x(11) + x(12) + x(13) + x(14) + x(15) + x(16) + x(17)
             + x(18) + x(19)

\* The eight 4-bit digits of a quadlet, for shift = 28, 24, ..., 0.
Nibbles(q) ==
    <<q[1] \div 16, q[1] % 16, q[2] \div 16, q[2] % 16,
      q[3] \div 16, q[3] % 16, q[4] \div 16, q[4] % 16>>

\* A step without the term sum << 5.
crc_digit_short(crc, digit) ==
    LET sum == Xor(crc \div 4096, digit) % 16
    IN  Xor(Xor(crc * 16, sum * 4096), sum) % 65536

\* sum = ((crc >> 12) ^ (quadlet[i] >> shift)) & 0xf;
\* crc = ((crc << 4) ^ (sum << 12) ^ (sum << 5) ^ sum) & 0xffff;
crc_digit(crc, digit) ==
    LET sum == Xor(crc \div 4096, digit) % 16
    IN  Xor(Xor(Xor(crc * 16, sum * 4096), sum * 32), sum) % 65536

RECURSIVE crc_quadlet(_, _, _)
\* for (shift = 28; shift >= 0; shift -= 4), crc being a 16-bit value.
crc_quadlet(crc, digits, k) ==
    IF crc \in 0..65535 /\ k <= 8
    THEN crc_quadlet(crc_digit(crc, digits[k]), digits, k + 1)
    ELSE crc

RECURSIVE crc_quadlets(_, _, _)
\* for (i = 0; i < quadlet_count; ++i), crc being a 16-bit value.
crc_quadlets(crc, quadlets, i) ==
    IF crc \in 0..65535 /\ i <= Len(quadlets)
    THEN crc_quadlets(crc_quadlet(crc, Nibbles(quadlets[i]), 1), quadlets, i + 1)
    ELSE crc

compute_itu_t_crc_16(quadlets) == crc_quadlets(0, quadlets, 1)

\* The quadlet_count quadlets of data[] from a byte offset on.
QuadletsAt(d, j, offset, quadlet_count) ==
    [i \in 1..quadlet_count |-> QuadletAt(d, j, offset + 4 * (i - 1))]

\* format_bus_info_metadata(): bus_info_length, crc_length (" (up to N)" when
\* the covered quadlets end after the data), crc (" (should be N)" when the
\* computed CRC differs).  info = <<bus_info_length, crc_length, up to or -1,
\* crc, should be or -1>>.
format_bus_info_metadata(d, j, offset, data_length) ==
    LET q0 == QuadletAt(d, j, offset)
        block_length == q0[1]
        crc_length == q0[2]
        crc == q0[3] * 256 + q0[4]
        whole == 4 * (crc_length + 1) <= data_length
        effective_crc_length == ((data_length - 4) \div 4) % 256
        actual_crc ==
            compute_itu_t_crc_16(QuadletsAt(d, j, offset + 4,
                IF whole THEN crc_length ELSE effective_crc_length))
    IN  <<block_length, crc_length,
          IF whole THEN -1 ELSE effective_crc_length,
          crc,
          IF crc # actual_crc THEN actual_crc ELSE -1>>

\* format_ieee1394_bus_dependent_information(): two lines when the generation
\* field is not zero, one line otherwise.
format_ieee1394_bus_dependent_information(offset, quadlet) ==
    LET generation == (quadlet[4] % 256) \div 16
    IN  IF generation > 0
        THEN <<format_line_prefix(offset, quadlet, TRUE, "bus_dep", NULL, NULL, NULL, <<>>),
               format_blank_prefix("bus_dep_gen", NULL, NULL, <<>>)>>
        ELSE <<format_line_prefix(offset, quadlet, TRUE, "bus_dep", NULL, NULL, NULL, <<>>)>>

format_unspecified_bus_dependent_information(offset, quadlet) ==
    <<format_line_prefix(offset, quadlet, FALSE, "raw", NULL, NULL, NULL, <<>>)>>

\* bus_entries[] of format_bus_info_block(); the last entry is the fallback.
bus_name_of(quadlet) ==
    IF quadlet = BUS_NAME_1394 THEN "1394"
    ELSE IF quadlet = <<255, 255, 255, 255>> THEN "unspecified"
    ELSE "unspecified"

format_bus_info_block(d, j, bus_info, data_length) ==
    LET offset == bus_info.offset
        quadlet_count == bus_info.length \div 4
        q(i) == QuadletAt(d, j, offset + 4 * i)
    IN  <<format_blank_prefix("title", NULL, "ROM header and bus information block", <<>>),
          format_horizontal_line,
          format_line_prefix(offset, q(0), TRUE, "bus_info_metadata", NULL, NULL, NULL,
                             format_bus_info_metadata(d, j, offset, data_length)),
          format_line_prefix(offset + 4, q(1), TRUE, "bus_name", NULL,
                             bus_name_of(q(1)), NULL, <<>>)>>
        \o (IF bus_name_of(q(1)) = "1394"
            THEN format_ieee1394_bus_dependent_information(offset + 8, q(2))
            ELSE format_unspecified_bus_dependent_information(offset + 8, q(2)))
        \o <<format_line_prefix(offset + 12, q(3), TRUE, "company_id", NULL, NULL, NULL, <<>>),
             format_line_prefix(offset + 16, q(4), TRUE, "device_id", NULL, NULL, NULL, <<>>)>>
        \o [i \in 1..(IF quadlet_count > 5 THEN quadlet_count - 5 ELSE 0) |->
               format_line_prefix(offset + 4 * 5, q(4 + i), FALSE, "raw", NULL, NULL, NULL, <<>>)]

\* A metadata line whose CRC leaves out the last quadlet of the block.
format_block_metadata_short(d, j, offset, quadlet_count) ==
    LET q0 == QuadletAt(d, j, offset)
        block_length == q0[1] * 256 + q0[2]
        block_crc == q0[3] * 256 + q0[4]
        actual_block_crc ==
            compute_itu_t_crc_16(QuadletsAt(d, j, offset + 4,
                IF quadlet_count > 1 THEN quadlet_count - 2 ELSE 0))
    IN  <<block_length,
          IF 1 + block_length # quadlet_count THEN quadlet_count - 1 ELSE -1,
          block_crc,
          IF block_crc # actual_block_crc THEN actual_block_crc ELSE -1>>

\* A metadata line that never shows "(should be N)".
format_block_metadata_silent(d, j, offset, quadlet_count) ==
    LET q0 == QuadletAt(d, j, offset)
        block_length == q0[1] * 256 + q0[2]
    IN  <<block_length,
          IF 1 + block_length # quadlet_count THEN quadlet_count - 1 ELSE -1,
          q0[3] * 256 + q0[4],
          -1>>

\* format_block_metadata(): <name>_length (" (actual length N)" when the block
\* was shortened or is longer than declared), crc (" (should be N)").  The CRC
\* is computed over the quadlet_count - 1 quadlets after the header.
\* info = <<length, actual length or -1, crc, should be or -1>>.
format_block_metadata(d, j, offset, quadlet_count) ==
    LET q0 == QuadletAt(d, j, offset)
        block_length == q0[1] * 256 + q0[2]
        block_crc == q0[3] * 256 + q0[4]
        actual_block_crc ==
            compute_itu_t_crc_16(QuadletsAt(d, j, offset + 4, quadlet_count - 1))
    IN  <<block_length,
          IF 1 + block_length # quadlet_count THEN quadlet_count - 1 ELSE -1,
          block_crc,
          IF block_crc # actual_block_crc THEN actual_block_crc ELSE -1>>

-----------------------------------------------------------------------------
(* Key formatters.  A struct key_formatter is the record [key_type, key_id, *)
(* key_id_name, format_content], where format_content is the name of the    *)
(* function the table holds, or "NULL".                                     *)

KEY_ID_CSR_DESCRIPTOR   == 1
KEY_ID_CSR_BUS_DEP_INFO == 2
KEY_ID_CSR_VENDOR_INFO  == 3
KEY_ID_CSR_MODULE_INFO  == 7
KEY_ID_CSR_UNIT         == 17
KEY_ID_CSR_SPECIFIER_ID == 18
KEY_ID_CSR_VERSION      == 19
KEY_ID_CSR_DEP_INFO     == 20
KEY_ID_CSR_INSTANCE     == 24
KEY_ID_CSR_FEATURE      == 26

\* csr_key_formatters[], lines 1553-1695
csr_key_formatters ==
    <<
      [key_type |-> 2, key_id |-> 1, key_id_name |-> "descriptor",
       format_content |-> "format_csr_descriptor_leaf_content"],
      [key_type |-> 3, key_id |-> 1, key_id_name |-> "descriptor",
       format_content |-> "format_directory_entries"],
      [key_type |-> 0, key_id |-> 2, key_id_name |-> "bus dependent info",
       format_content |-> "NULL"],
      [key_type |-> 2, key_id |-> 2, key_id_name |-> "bus dependent info",
       format_content |-> "format_unspecified_leaf_content"],
      [key_type |-> 3, key_id |-> 2, key_id_name |-> "bus dependent info",
       format_content |-> "format_directory_entries"],
      [key_type |-> 0, key_id |-> 3, key_id_name |-> "vendor",
       format_content |-> "NULL"],
      [key_type |-> 2, key_id |-> 3, key_id_name |-> "vendor",
       format_content |-> "format_unspecified_leaf_content"],
      [key_type |-> 3, key_id |-> 3, key_id_name |-> "vendor",
       format_content |-> "format_directory_entries"],
      [key_type |-> 0, key_id |-> 4, key_id_name |-> "hardware version",
       format_content |-> "NULL"],
      [key_type |-> 2, key_id |-> 7, key_id_name |-> "module",
       format_content |-> "format_csr_eui64_leaf_content"],
      [key_type |-> 3, key_id |-> 7, key_id_name |-> "module",
       format_content |-> "format_directory_entries"],
      [key_type |-> 2, key_id |-> 13, key_id_name |-> "eui-64",
       format_content |-> "format_csr_eui64_leaf_content"],
      [key_type |-> 3, key_id |-> 17, key_id_name |-> "unit",
       format_content |-> "format_directory_entries"],
      [key_type |-> 0, key_id |-> 18, key_id_name |-> "specifier id",
       format_content |-> "NULL"],
      [key_type |-> 0, key_id |-> 19, key_id_name |-> "version",
       format_content |-> "NULL"],
      [key_type |-> 0, key_id |-> 20, key_id_name |-> "dependent info",
       format_content |-> "NULL"],
      [key_type |-> 1, key_id |-> 20, key_id_name |-> "dependent info",
       format_content |-> "NULL"],
      [key_type |-> 2, key_id |-> 20, key_id_name |-> "dependent info",
       format_content |-> "format_unspecified_leaf_content"],
      [key_type |-> 3, key_id |-> 20, key_id_name |-> "dependent info",
       format_content |-> "format_directory_entries"],
      [key_type |-> 2, key_id |-> 21, key_id_name |-> "unit location",
       format_content |-> "format_csr_unit_location_leaf_content"],
      [key_type |-> 0, key_id |-> 23, key_id_name |-> "model",
       format_content |-> "NULL"],
      [key_type |-> 3, key_id |-> 24, key_id_name |-> "instance",
       format_content |-> "format_directory_entries"],
      [key_type |-> 2, key_id |-> 25, key_id_name |-> "keyword",
       format_content |-> "format_csr_keyword_leaf_content"],
      [key_type |-> 3, key_id |-> 26, key_id_name |-> "feature",
       format_content |-> "format_directory_entries"],
      [key_type |-> 0, key_id |-> 32, key_id_name |-> "directory id",
       format_content |-> "NULL"]
    >>

\* ieee1394_bus_key_formatters[], lines 1707-1714
ieee1394_bus_key_formatters ==
    <<
      [key_type |-> 0, key_id |-> 12, key_id_name |-> "node capabilities",
       format_content |-> "format_ieee1394_bus_node_capabilities_immediate_value"]
    >>

\* incits_sbp_key_formatters[], lines 1875-1951
incits_sbp_key_formatters ==
    <<
      [key_type |-> 2, key_id |-> 13, key_id_name |-> "unit unique id",
       format_content |-> "format_csr_eui64_leaf_content"],
      [key_type |-> 0, key_id |-> 20, key_id_name |-> "logical unit number",
       format_content |-> "format_sbp_logical_unit_number_immediate_value"],
      [key_type |-> 1, key_id |-> 20, key_id_name |-> "management agent CSR",
       format_content |-> "NULL"],
      [key_type |-> 3, key_id |-> 20, key_id_name |-> "logical unit",
       format_content |-> "format_directory_entries"],
      [key_type |-> 0, key_id |-> 33, key_id_name |-> "revision",
       format_content |-> "format_sbp3_revision_immediate_value"],
      [key_type |-> 0, key_id |-> 50, key_id_name |-> "plug control register",
       format_content |-> "format_sbp3_plug_control_register_immediate_value"],
      [key_type |-> 0, key_id |-> 56, key_id_name |-> "command set spec id",
       format_content |-> "NULL"],
      [key_type |-> 0, key_id |-> 57, key_id_name |-> "command set",
       format_content |-> "format_sbp_command_set_immediate_value"],
      [key_type |-> 0, key_id |-> 58, key_id_name |-> "unit char.",
       format_content |-> "format_sbp_unit_characteristic_immediate_value"],
      [key_type |-> 0, key_id |-> 59, key_id_name |-> "command set revision",
       format_content |-> "NULL"],
      [key_type |-> 0, key_id |-> 60, key_id_name |-> "firmware revision",
       format_content |-> "format_sbp_firmware_revision_immediate_value"],
      [key_type |-> 0, key_id |-> 61, key_id_name |-> "reconnect timeout",
       format_content |-> "format_sbp_reconnect_timeout_immediate_value"],
      [key_type |-> 0, key_id |-> 62, key_id_name |-> "fast start",
       format_content |-> "format_sbp3_fast_start_immediate_value"]
    >>

\* ta1394_iidc_104_key_formatters[], lines 2030-2048
ta1394_iidc_104_key_formatters ==
    <<
      [key_type |-> 1, key_id |-> 0, key_id_name |-> "command_regs_base",
       format_content |-> "NULL"],
      [key_type |-> 2, key_id |-> 1, key_id_name |-> "vendor name",
       format_content |-> "format_iidc_104_leaf_content"],
      [key_type |-> 2, key_id |-> 2, key_id_name |-> "model name",
       format_content |-> "format_iidc_104_leaf_content"]
    >>

\* ta1394_iidc_131_key_formatters[], lines 2050-2109
ta1394_iidc_131_key_formatters ==
    <<
      [key_type |-> 1, key_id |-> 0, key_id_name |-> "command_regs_base",
       format_content |-> "NULL"],
      [key_type |-> 2, key_id |-> 1, key_id_name |-> "vendor name",
       format_content |-> "format_iidc_104_leaf_content"],
      [key_type |-> 2, key_id |-> 2, key_id_name |-> "model name",
       format_content |-> "format_iidc_104_leaf_content"],
      [key_type |-> 0, key_id |-> 56, key_id_name |-> "unit sub sw version",
       format_content |-> "format_iidc_131_unit_sub_sw_version_immediate_value"],
      [key_type |-> 0, key_id |-> 57, key_id_name |-> "(reserved)",
       format_content |-> "NULL"],
      [key_type |-> 0, key_id |-> 58, key_id_name |-> "(reserved)",
       format_content |-> "NULL"],
      [key_type |-> 0, key_id |-> 59, key_id_name |-> "(reserved)",
       format_content |-> "NULL"],
      [key_type |-> 0, key_id |-> 60, key_id_name |-> "vendor_unique_info_0",
       format_content |-> "NULL"],
      [key_type |-> 0, key_id |-> 61, key_id_name |-> "vendor_unique_info_1",
       format_content |-> "NULL"],
      [key_type |-> 0, key_id |-> 62, key_id_name |-> "vendor_unique_info_2",
       format_content |-> "NULL"],
      [key_type |-> 0, key_id |-> 63, key_id_name |-> "vendor_unique_info_3",
       format_content |-> "NULL"]
    >>

\* ta1394_iidc2_100_key_formatters[], lines 2111-2170
ta1394_iidc2_100_key_formatters ==
    <<
      [key_type |-> 1, key_id |-> 0, key_id_name |-> "IIDC2Entry",
       format_content |-> "NULL"],
      [key_type |-> 2, key_id |-> 1, key_id_name |-> "vendor name",
       format_content |-> "format_iidc_104_leaf_content"],
      [key_type |-> 2, key_id |-> 2, key_id_name |-> "model name",
       format_content |-> "format_iidc_104_leaf_content"],
      [key_type |-> 0, key_id |-> 56, key_id_name |-> "unit sub sw version",
       format_content |-> "format_iidc2_100_unit_sub_sw_version_immediate_value"],
      [key_type |-> 0, key_id |-> 57, key_id_name |-> "(reserved)",
       format_content |-> "NULL"],
      [key_type |-> 0, key_id |-> 58, key_id_name |-> "(reserved)",
       format_content |-> "NULL"],
      [key_type |-> 0, key_id |-> 59, key_id_name |-> "(reserved)",
       format_content |-> "NULL"],
      [key_type |-> 0, key_id |-> 60, key_id_name |-> "vendor_unique_info_0",
       format_content |-> "NULL"],
      [key_type |-> 0, key_id |-> 61, key_id_name |-> "vendor_unique_info_1",
       format_content |-> "NULL"],
      [key_type |-> 0, key_id |-> 62, key_id_name |-> "vendor_unique_info_2",
       format_content |-> "NULL"],
      [key_type |-> 0, key_id |-> 63, key_id_name |-> "vendor_unique_info_3",
       format_content |-> "NULL"]
    >>

\* ta1394_dpp_111_key_formatters[], lines 2222-2262
ta1394_dpp_111_key_formatters ==
    <<
      [key_type |-> 3, key_id |-> 20, key_id_name |-> "command set directory",
       format_content |-> "format_directory_entries"],
      [key_type |-> 0, key_id |-> 56, key_id_name |-> "command set spec id",
       format_content |-> "NULL"],
      [key_type |-> 0, key_id |-> 57, key_id_name |-> "command set",
       format_content |-> "format_dpp_111_command_set_immediate_value"],
      [key_type |-> 0, key_id |-> 58, key_id_name |-> "command set details",
       format_content |-> "NULL"],
      [key_type |-> 1, key_id |-> 59, key_id_name |-> "connection CSR",
       format_content |-> "NULL"],
      [key_type |-> 0, key_id |-> 60, key_id_name |-> "write transaction interval",
       format_content |-> "format_dpp_111_write_transaction_interval_immediate_value"],
      [key_type |-> 0, key_id |-> 61, key_id_name |-> "unit sw details",
       format_content |-> "format_dpp_111_unit_sw_details_immediate_value"]
    >>

\* ta1394_iicp_key_formatters[], lines 2343-2384
ta1394_iicp_key_formatters ==
    <<
      [key_type |-> 0, key_id |-> 56, key_id_name |-> "details",
       format_content |-> "format_iicp_details_immediate_value"],
      [key_type |-> 0, key_id |-> 57, key_id_name |-> "command set spec id",
       format_content |-> "NULL"],
      [key_type |-> 0, key_id |-> 58, key_id_name |-> "command set",
       format_content |-> "format_iicp_command_set_immediate_value"],
      [key_type |-> 0, key_id |-> 59, key_id_name |-> "command set details",
       format_content |-> "format_iicp_command_set_details_immediate_value"],
      [key_type |-> 1, key_id |-> 60, key_id_name |-> "connection CSR",
       format_content |-> "NULL"],
      [key_type |-> 0, key_id |-> 61, key_id_name |-> "capabilities",
       format_content |-> "format_iicp_capabilities_immediate_value"],
      [key_type |-> 1, key_id |-> 62, key_id_name |-> "interrupt_enable CSR",
       format_content |-> "NULL"],
      [key_type |-> 1, key_id |-> 63, key_id_name |-> "interrupt_handlr CSR",
       format_content |-> "NULL"]
    >>

\* apple_isight_audio_key_formatters[], lines 2390-2396
apple_isight_audio_key_formatters ==
    <<
      [key_type |-> 1, key_id |-> 0, key_id_name |-> "register file",
       format_content |-> "NULL"]
    >>

\* apple_isight_iris_key_formatters[], lines 2402-2408
apple_isight_iris_key_formatters ==
    <<
      [key_type |-> 1, key_id |-> 0, key_id_name |-> "Iris Status Address register",
       format_content |-> "NULL"]
    >>

\* spec_entries[] of detect_key_formatter(), lines 2439-2567
spec_entries ==
    <<
      [spec_name |-> "IPv4 over 1394 (RFC 2734)", specifier_id |-> 94, version |-> 1,
       formatters |-> <<>>],
      [spec_name |-> "IPv6 over 1394 (RFC 3146)", specifier_id |-> 94, version |-> 2,
       formatters |-> <<>>],
      [spec_name |-> "SBP-2", specifier_id |-> 24734, version |-> 66691,
       formatters |-> incits_sbp_key_formatters],
      [spec_name |-> "AV/C over SBP-3", specifier_id |-> 24734, version |-> 67003,
       formatters |-> incits_sbp_key_formatters],
      [spec_name |-> "AV/C", specifier_id |-> 41005, version |-> 65537,
       formatters |-> <<>>],
      [spec_name |-> "CAL", specifier_id |-> 41005, version |-> 65538,
       formatters |-> <<>>],
      [spec_name |-> "EHS", specifier_id |-> 41005, version |-> 65540,
       formatters |-> <<>>],
      [spec_name |-> "HAVi", specifier_id |-> 41005, version |-> 65544,
       formatters |-> <<>>],
      [spec_name |-> "Vendor Unique", specifier_id |-> 41005, version |-> 81920,
       formatters |-> <<>>],
      [spec_name |-> "Vendor Unique and AV/C", specifier_id |-> 41005, version |-> 81921,
       formatters |-> <<>>],
      [spec_name |-> "IIDC 1.04", specifier_id |-> 41005, version |-> 256,
       formatters |-> ta1394_iidc_104_key_formatters],
      [spec_name |-> "IIDC 1.20", specifier_id |-> 41005, version |-> 257,
       formatters |-> ta1394_iidc_104_key_formatters],
      [spec_name |-> "IIDC 1.30", specifier_id |-> 41005, version |-> 258,
       formatters |-> ta1394_iidc_131_key_formatters],
      [spec_name |-> "IIDC2", specifier_id |-> 41005, version |-> 272,
       formatters |-> ta1394_iidc2_100_key_formatters],
      [spec_name |-> "DPP 1.0", specifier_id |-> 41005, version |-> 682978,
       formatters |-> ta1394_dpp_111_key_formatters],
      [spec_name |-> "IICP 1.0", specifier_id |-> 41005, version |-> 4941343,
       formatters |-> ta1394_iicp_key_formatters],
      [spec_name |-> "audio", specifier_id |-> 1429, version |-> 1,
       formatters |-> <<>>],
      [spec_name |-> "iSight audio unit", specifier_id |-> 2599, version |-> 16,
       formatters |-> apple_isight_audio_key_formatters],
      [spec_name |-> "iSight factory unit", specifier_id |-> 2599, version |-> 17,
       formatters |-> <<>>],
      [spec_name |-> "iSight iris unit", specifier_id |-> 2599, version |-> 18,
       formatters |-> apple_isight_iris_key_formatters],
      [spec_name |-> "HID", specifier_id |-> 53323, version |-> 4737348,
       formatters |-> <<>>]
    >>

\* default_formatters[] of detect_key_formatter(), indexed by key type + 1.
default_formatters ==
    <<
      [key_type |-> KEY_TYPE_IMMEDIATE, key_id |-> INVALID_KEY_ID,
       key_id_name |-> UNSPECIFIED_ENTRY_NAME,
       format_content |-> "format_unspecified_immediate_value"],
      [key_type |-> KEY_TYPE_CSR_OFFSET, key_id |-> INVALID_KEY_ID,
       key_id_name |-> UNSPECIFIED_ENTRY_NAME,
       format_content |-> "NULL"],
      [key_type |-> KEY_TYPE_LEAF, key_id |-> INVALID_KEY_ID,
       key_id_name |-> UNSPECIFIED_ENTRY_NAME,
       format_content |-> "format_unspecified_leaf_content"],
      [key_type |-> KEY_TYPE_DIRECTORY, key_id |-> INVALID_KEY_ID,
       key_id_name |-> UNSPECIFIED_ENTRY_NAME,
       format_content |-> "format_directory_entries"]
    >>

\* struct spec_identifier.
spec_identifier(specifier_id, version) ==
    [specifier_id |-> specifier_id, version |-> version]

\* The positions of the formatters of a table with the key type and the key id.
formatter_matches(formatters, key_type, key_id) ==
    { i \in 1..Len(formatters) :
        formatters[i].key_type = key_type /\ formatters[i].key_id = key_id }

\* find_formatter(): the first formatter of the table with the key type and
\* the key id.  NULL is returned when formatter_matches() is empty.
find_formatter(formatters, key_type, key_id) ==
    LET found == formatter_matches(formatters, key_type, key_id)
    IN  formatters[CHOOSE i \in found : \A k \in found : i <= k]

\* The positions of the entries of spec_entries[] equal to the identifier
\* (memcmp() of the two fields).
spec_entry_matches(identifier) ==
    { i \in 1..Len(spec_entries) :
        /\ spec_entries[i].specifier_id = identifier.specifier_id
        /\ spec_entries[i].version = identifier.version }

\* A lookup that never searches the table of the spec.
detect_key_formatter_generic(identifier, key_type, key_id) ==
    IF formatter_matches(ieee1394_bus_key_formatters, key_type, key_id) # {}
    THEN [formatter |-> find_formatter(ieee1394_bus_key_formatters, key_type, key_id),
          spec_name |-> NULL]
    ELSE IF formatter_matches(csr_key_formatters, key_type, key_id) # {}
    THEN [formatter |-> find_formatter(csr_key_formatters, key_type, key_id),
          spec_name |-> NULL]
    ELSE [formatter |-> default_formatters[key_type + 1], spec_name |-> NULL]

\* detect_key_formatter(): the formatter and the spec_name it leaves to the
\* caller, which passes spec_name = NULL.
detect_key_formatter(identifier, key_type, key_id) ==
    LET found == spec_entry_matches(identifier)
        spec_entry == spec_entries[CHOOSE i \in found : \A k \in found : i <= k]
    IN  IF found # {} /\ formatter_matches(spec_entry.formatters, key_type, key_id) # {}
        THEN [formatter |-> find_formatter(spec_entry.formatters, key_type, key_id),
              spec_name |-> spec_entry.spec_name]
        ELSE IF formatter_matches(ieee1394_bus_key_formatters, key_type, key_id) # {}
        THEN [formatter |-> find_formatter(ieee1394_bus_key_formatters, key_type, key_id),
              spec_name |-> NULL]
        ELSE IF formatter_matches(csr_key_formatters, key_type, key_id) # {}
        THEN [formatter |-> find_formatter(csr_key_formatters, key_type, key_id),
              spec_name |-> NULL]
        ELSE [formatter |-> default_formatters[key_type + 1], spec_name |-> NULL]

-----------------------------------------------------------------------------
(* Leaf contents.  Each formatter gets the place in data[] of the quadlets  *)
(* after the leaf header and their number, and gives its lines.             *)

\* The four bytes of a quadlet, '\0' bytes included.
Letters_all(quadlet) == quadlet

\* The letters of a quadlet that are printed between the quotes: the bytes
\* that are not '\0', most significant first.
Letters(quadlet) == SelectSeq(quadlet, LAMBDA letter : letter # 0)

\* A line of text: quoted letters when the quadlet is not zero.
text_line(offset, quadlet, info) ==
    IF quadlet # <<0, 0, 0, 0>>
    THEN format_line_prefix(offset, quadlet, TRUE, "text", NULL, NULL, "quoted", info)
    ELSE format_line_prefix(offset, quadlet, TRUE, "text", NULL, NULL, NULL, <<>>)

raw_line(offset, quadlet) ==
    format_line_prefix(offset, quadlet, FALSE, "raw", NULL, NULL, NULL, <<>>)

format_unspecified_leaf_content(d, j, offset, quadlet_count) ==
    [i \in 1..quadlet_count |->
        raw_line(offset + 4 * (i - 1), QuadletAt(d, j, offset + 4 * (i - 1)))]

format_csr_textual_descriptor_leaf_content(d, j, offset, quadlet_count) ==
    IF quadlet_count < 2
    THEN <<>>
    ELSE LET q0 == QuadletAt(d, j, offset)
         IN  <<format_line_prefix(offset, q0, TRUE, "text_header", NULL, NULL, NULL,
                   <<q0[1] \div 16, (q0[1] % 16) * 256 + q0[2], q0[3] * 256 + q0[4]>>)>>
             \o [i \in 1..(quadlet_count - 1) |->
                   text_line(offset + 4 * i, QuadletAt(d, j, offset + 4 * i),
                             Letters(QuadletAt(d, j, offset + 4 * i)))]

format_csr_descriptor_leaf_content(d, j, offset, quadlet_count) ==
    IF quadlet_count < 1
    THEN <<>>
    ELSE LET q0 == QuadletAt(d, j, offset)
             desc_type == q0[1]
         IN  <<format_line_prefix(offset, q0, TRUE, "descriptor", NULL,
                   IF desc_type = 0 THEN "textual descriptor"
                   ELSE IF desc_type = 1 THEN "icon descriptor"
                   ELSE "descriptor_type",
                   NULL,
                   \* spec_id = (quadlet[0] & CSR_SPEC_MASK) & CSR_SPEC_SHIFT, which is 0.
                   IF desc_type \in {0, 1} THEN <<>> ELSE <<desc_type, 0>>)>>
             \o (IF desc_type = 0
                 THEN format_csr_textual_descriptor_leaf_content(d, j, offset + 4,
                                                                 quadlet_count - 1)
                 ELSE format_unspecified_leaf_content(d, j, offset + 4, quadlet_count - 1))

RECURSIVE keyword_letters(_, _, _)
\* The letters of format_csr_keyword_leaf_content() for one quadlet: a '\0'
\* closes the word and opens the next one (shown as -1), or ends the line when
\* the quadlet is the last one.
keyword_letters(quadlet, k, last) ==
    IF k > 4 THEN <<>>
    ELSE IF quadlet[k] # 0 THEN <<quadlet[k]>> \o keyword_letters(quadlet, k + 1, last)
    ELSE IF ~last THEN <<-1>> \o keyword_letters(quadlet, k + 1, last)
    ELSE <<>>

format_csr_keyword_leaf_content(d, j, offset, quadlet_count) ==
    [i \in 1..quadlet_count |->
        text_line(offset + 4 * (i - 1), QuadletAt(d, j, offset + 4 * (i - 1)),
                  keyword_letters(QuadletAt(d, j, offset + 4 * (i - 1)), 1,
                                  i - 1 >= quadlet_count - 1))]

format_csr_unit_location_leaf_content(d, j, offset, quadlet_count) ==
    IF quadlet_count < 4
    THEN <<>>
    ELSE <<format_line_prefix(offset, QuadletAt(d, j, offset), TRUE,
                              "base_address", NULL, NULL, NULL, <<>>),
           raw_line(offset + 4, QuadletAt(d, j, offset + 4)),
           format_line_prefix(offset + 8, QuadletAt(d, j, offset + 8), TRUE,
                              "upper_bound", NULL, NULL, NULL, <<>>),
           raw_line(offset + 12, QuadletAt(d, j, offset + 12))>>

format_csr_eui64_leaf_content(d, j, offset, quadlet_count) ==
    IF quadlet_count < 2
    THEN <<>>
    ELSE <<format_line_prefix(offset, QuadletAt(d, j, offset), TRUE,
                              "company_id", NULL, NULL, NULL, <<>>),
           format_line_prefix(offset + 4, QuadletAt(d, j, offset + 4), TRUE,
                              "device_id", NULL, NULL, NULL, <<>>)>>

\* The first two quadlets are printed whatever quadlet_count is.
format_iidc_104_leaf_content(d, j, offset, quadlet_count) ==
    <<raw_line(offset, QuadletAt(d, j, offset)),
      raw_line(offset + 4, QuadletAt(d, j, offset + 4))>>
    \o [i \in 1..(IF quadlet_count > 2 THEN quadlet_count - 2 ELSE 0) |->
          text_line(offset + 4 * (i + 1), QuadletAt(d, j, offset + 4 * (i + 1)),
                    Letters(QuadletAt(d, j, offset + 4 * (i + 1))))]

\* formatter->format_content.leaf(...)
format_content_leaf(name, d, j, offset, quadlet_count) ==
    CASE name = "format_csr_descriptor_leaf_content" ->
             format_csr_descriptor_leaf_content(d, j, offset, quadlet_count)
      [] name = "format_csr_keyword_leaf_content" ->
             format_csr_keyword_leaf_content(d, j, offset, quadlet_count)
      [] name = "format_csr_unit_location_leaf_content" ->
             format_csr_unit_location_leaf_content(d, j, offset, quadlet_count)
      [] name = "format_csr_eui64_leaf_content" ->
             format_csr_eui64_leaf_content(d, j, offset, quadlet_count)
      [] name = "format_iidc_104_leaf_content" ->
             format_iidc_104_leaf_content(d, j, offset, quadlet_count)
      [] OTHER ->
             format_unspecified_leaf_content(d, j, offset, quadlet_count)

-----------------------------------------------------------------------------
(* Directories and blocks. *)

\* The block of the list at an offset (a struct ieee1212_block pointer).
block_at(list, offset) ==
    list[CHOOSE k \in 1..Len(list) : list[k].offset = offset]

entry_name(formatter) ==
    IF formatter.key_id # INVALID_KEY_ID THEN formatter.key_id_name ELSE NULL

entry_content(formatter) ==
    IF formatter.format_content = "NULL" THEN NULL ELSE formatter.format_content

\* device_types[] of format_sbp_logical_unit_number_immediate_value(),
\* indexed by device type + 1.
device_types ==
    <<"Disk", "Tape", "Printer", "Processor", "WORM", "CD/DVD", "Scanner", "MOD",
      "Changer", "Comm", "Prepress", "Prepress", "RAID", "Enclosure", "RBC", "OCRW",
      "Bridge", "OSD", "ADC-2">>

\* format_sbp_logical_unit_number_immediate_value(): " extended_status 1,",
\* " ordered %d,", " isoch 1,", and "type <name>,", "type w.k.LUN,",
\* "type unknown," or "type %02x?," of type_number.
\* device_type is (value & 0x1f) >> 16.
format_sbp_logical_unit_number_immediate_value(value) ==
    LET extended == (value \div 8388608) % 2
        ordered == (value \div 4194304) % 2
        isoc == (value \div 2097152) % 2
        device_type == (value % 32) \div 65536
        logical_unit == value % 65536
    IN  [extended_status |-> extended = 1,
         ordered |-> ordered,
         isoch |-> isoc = 1,
         type |-> IF device_type < Len(device_types) THEN device_types[device_type + 1]
                  ELSE IF logical_unit = 30 THEN "w.k.LUN"
                  ELSE IF logical_unit = 31 THEN "unknown"
                  ELSE "%02x?",
         type_number |-> device_type]

\* format_immediate_entry(): spec name, key name, and ": " and the formatted
\* value when the formatter has a function for it.
format_immediate_entry(offset, quadlet, value, spec_name, formatter) ==
    format_line_prefix(offset, quadlet, TRUE, "immediate", spec_name,
                       entry_name(formatter), entry_content(formatter),
                       IF formatter.format_content =
                              "format_sbp_logical_unit_number_immediate_value"
                       THEN <<format_sbp_logical_unit_number_immediate_value(value)>>
                       ELSE IF formatter.format_content # "NULL" THEN <<value>>
                       ELSE <<>>)

\* format_csr_offset_entry(): "--> ", spec name, key name or "CSR", and the
\* address IEEE1212_REGISTER_SPACE_ADDRESS + 4 * value (info holds 4 * value).
format_csr_offset_entry(offset, quadlet, value, spec_name, formatter) ==
    format_line_prefix(offset, quadlet, TRUE, "csr_offset", spec_name,
                       IF formatter.key_id # INVALID_KEY_ID
                       THEN formatter.key_id_name ELSE "CSR",
                       NULL, <<4 * value>>)

\* format_leaf_entry(): "--> ", spec name, key name, "leaf at <offset>".
format_leaf_entry(offset, quadlet, value, spec_name, formatter) ==
    format_line_prefix(offset, quadlet, TRUE, "leaf", spec_name,
                       entry_name(formatter), NULL,
                       <<IEEE1212_CONFIG_ROM_OFFSET + offset + 4 * value>>)

\* format_directory_entry(): "--> ", spec name, key name, "directory at <offset>".
format_directory_entry(offset, quadlet, value, spec_name, formatter) ==
    format_line_prefix(offset, quadlet, TRUE, "directory", spec_name,
                       entry_name(formatter), NULL,
                       <<IEEE1212_CONFIG_ROM_OFFSET + offset + 4 * value>>)

\* One iteration of the loop of format_directory_entries().
format_entry(d, j, offset, identifier) ==
    LET quadlet == QuadletAt(d, j, offset)
        e == decode_directory_entry(quadlet)
        found == detect_key_formatter(identifier, e.key_type, e.key_id)
    IN  CASE e.key_type = KEY_TYPE_IMMEDIATE ->
                 format_immediate_entry(offset, quadlet, e.value, found.spec_name, found.formatter)
          [] e.key_type = KEY_TYPE_CSR_OFFSET ->
                 format_csr_offset_entry(offset, quadlet, e.value, found.spec_name, found.formatter)
          [] e.key_type = KEY_TYPE_LEAF ->
                 format_leaf_entry(offset, quadlet, e.value, found.spec_name, found.formatter)
          [] e.key_type = KEY_TYPE_DIRECTORY ->
                 format_directory_entry(offset, quadlet, e.value, found.spec_name, found.formatter)

\* format_directory_entries(): the metadata line and one line per entry.
format_directory_entries(d, j, directory_offset, quadlet_count, identifier) ==
    <<format_line_prefix(directory_offset, QuadletAt(d, j, directory_offset), TRUE,
                         "directory_metadata", NULL, NULL, NULL,
                         format_block_metadata(d, j, directory_offset, quadlet_count))>>
    \o [i \in 1..(quadlet_count - 1) |->
          format_entry(d, j, directory_offset + 4 * i, identifier)]

\* An entry loop that never fills the identifier.
accumulate_entry_never(identifier, e) == identifier

\* The body of the entry loop of format_leaf_block() and
\* format_directory_block(): the first immediate specifier id (or vendor) and
\* the first immediate version fill the fields that are still invalid.
accumulate_entry(identifier, e) ==
    IF e.key_type # KEY_TYPE_IMMEDIATE THEN identifier
    ELSE IF /\ e.key_id \in {KEY_ID_CSR_SPECIFIER_ID, KEY_ID_CSR_VENDOR_INFO}
            /\ identifier.specifier_id = INVALID_KEY_VALUE
    THEN [identifier EXCEPT !.specifier_id = e.value]
    ELSE IF e.key_id = KEY_ID_CSR_VERSION /\ identifier.version = INVALID_KEY_VALUE
    THEN [identifier EXCEPT !.version = e.value]
    ELSE identifier

RECURSIVE accumulate_entries(_, _, _, _, _)
\* for (i = 1; i < quadlet_count; ++i) over the entries of base.
accumulate_entries(identifier, d, j, base, i) ==
    IF i >= base.length \div 4
    THEN identifier
    ELSE accumulate_entries(
             accumulate_entry(identifier,
                 decode_directory_entry(QuadletAt(d, j, base.offset + 4 * i))),
             d, j, base, i + 1)

RECURSIVE inherit_identifier(_, _, _, _, _)
\* while (base != NULL): the entries of base, then of its parent when base is a
\* directory block.
inherit_identifier(identifier, d, j, list, base) ==
    IF base = NoParent
    THEN identifier
    ELSE LET b == block_at(list, base)
         IN  inherit_identifier(accumulate_entries(identifier, d, j, b, 1), d, j, list,
                                IF b.block_type = IEEE1212_DIRECTORY_BLOCK
                                THEN b.parent ELSE NoParent)

format_leaf_block(d, j, list, leaf) ==
    LET identifier ==
            inherit_identifier(spec_identifier(INVALID_KEY_VALUE, INVALID_KEY_VALUE),
                               d, j, list, leaf.parent)
        found == detect_key_formatter(identifier, KEY_TYPE_LEAF, leaf.key_id)
        quadlet_count == leaf.length \div 4
    IN  <<format_blank_prefix("leaf_title", found.spec_name, found.formatter.key_id_name,
                              <<IEEE1212_CONFIG_ROM_OFFSET + leaf.offset>>),
          format_horizontal_line,
          format_line_prefix(leaf.offset, QuadletAt(d, j, leaf.offset), TRUE,
                             "leaf_metadata", NULL, NULL, NULL,
                             format_block_metadata(d, j, leaf.offset, quadlet_count))>>
        \o format_content_leaf(found.formatter.format_content, d, j, leaf.offset + 4,
                               quadlet_count - 1)

\* The key ids for which the switch of format_directory_block() assigns base.
BaseIsParent ==
    {KEY_ID_CSR_VENDOR_INFO, KEY_ID_CSR_MODULE_INFO, KEY_ID_CSR_DESCRIPTOR,
     KEY_ID_CSR_BUS_DEP_INFO, KEY_ID_CSR_DEP_INFO, KEY_ID_CSR_INSTANCE}

BaseIsDirectory == {KEY_ID_CSR_UNIT, KEY_ID_CSR_FEATURE}

\* The value of base that is not a pointer to a block: dereferencing it ends
\* the process.
WildPointer == -2
SIGSEGV == "SIGSEGV"

\* The values base can have after the switch.  With any other key id it is
\* read uninitialised: NULL, a block of the list, or a wild pointer.
directory_bases(list, directory) ==
    IF directory.key_id \in BaseIsParent THEN {directory.parent}
    ELSE IF directory.key_id \in BaseIsDirectory THEN {directory.offset}
    ELSE {NoParent, WildPointer} \cup {list[k].offset : k \in 1..Len(list)}

\* format_directory_block(), for a value of base.
format_directory_block(d, j, list, directory, base) ==
    LET identifier ==
            inherit_identifier(spec_identifier(INVALID_KEY_VALUE, INVALID_KEY_VALUE),
                               d, j, list, base)
        found == detect_key_formatter(identifier, KEY_TYPE_DIRECTORY, directory.key_id)
    IN  <<format_blank_prefix("directory_title", NULL, found.formatter.key_id_name,
                              <<IEEE1212_CONFIG_ROM_OFFSET + directory.offset>>),
          format_horizontal_line>>
        \o format_directory_entries(d, j, directory.offset, directory.length \div 4,
                                    identifier)

RECURSIVE root_identifier(_, _, _, _, _)
\* The loop of format_root_directory_block(): every immediate vendor entry
\* overwrites identifier.specifier_id.
root_identifier(identifier, d, j, root, i) ==
    IF i >= root.length \div 4
    THEN identifier
    ELSE LET e == decode_directory_entry(QuadletAt(d, j, root.offset + 4 * i))
         IN  root_identifier(
                 IF e.key_type = KEY_TYPE_IMMEDIATE /\ e.key_id = KEY_ID_CSR_VENDOR_INFO
                 THEN [identifier EXCEPT !.specifier_id = e.value]
                 ELSE identifier,
                 d, j, root, i + 1)

format_root_directory_block(d, j, root) ==
    <<format_blank_prefix("title", NULL, "root directory", <<>>),
      format_horizontal_line>>
    \o format_directory_entries(d, j, root.offset, root.length \div 4,
           root_identifier(spec_identifier(INVALID_KEY_VALUE, INVALID_KEY_VALUE),
                           d, j, root, 1))

format_orphan_block(d, j, orphan) ==
    [i \in 1..(orphan.length \div 4) |->
        format_line_prefix(orphan.offset + 4 * (i - 1),
                           QuadletAt(d, j, orphan.offset + 4 * (i - 1)), TRUE,
                           "unreferenced", NULL, NULL, NULL, <<>>)]

\* A formatter that writes no line.
format_nothing(d, j, list, block, base, data_length) == <<>>

\* format[block->block_type](buf, LINE_WIDTH, block, data_length)
format(d, j, list, block, base, data_length) ==
    CASE block.block_type = IEEE1212_BUS_INFO_BLOCK ->
             format_bus_info_block(d, j, block, data_length)
      [] block.block_type = IEEE1212_ROOT_DIRECTORY_BLOCK ->
             format_root_directory_block(d, j, block)
      [] block.block_type = IEEE1212_LEAF_BLOCK ->
             format_leaf_block(d, j, list, block)
      [] block.block_type = IEEE1212_DIRECTORY_BLOCK ->
             format_directory_block(d, j, list, block, base)
      [] block.block_type = ORPHAN_BLOCK ->
             format_orphan_block(d, j, block)

-----------------------------------------------------------------------------
(* print_blocks() *)

\* The allocation without the extra 10 lines.
print_blocks_lines_tight(list) ==
    LET counts == { list[k].length \div 4 : k \in 1..Len(list) }
    IN  IF counts = {} THEN 0 ELSE CHOOSE c \in counts : \A x \in counts : x <= c

\* lines: the largest block->length / 4 of the list, and "extra 10 lines for
\* safe"; the number of elements of buf[].
print_blocks_lines(list) ==
    LET counts == { list[k].length \div 4 : k \in 1..Len(list) }
    IN  (IF counts = {} THEN 0 ELSE CHOOSE c \in counts : \A x \in counts : x <= c) + 10

\* The line buffers: calloc() of the array fails (-ENOMEM), malloc() of a line
\* fails (goto end, return 0), or all are allocated.
PrintAlloc ==
    /\ pc = "print_alloc"
    /\ \/ /\ err' = ENOMEM
          /\ pc' = "end"
          /\ ev' = "print:ENOMEM"
       \/ /\ err' = OK
          /\ pc' = "end"
          /\ ev' = "print:line_ENOMEM"
       \/ /\ err' = err
          /\ pc' = "print"
          /\ ev' = "print:alloc"
    /\ cursor' = 1
    /\ UNCHANGED <<stdin, data, length, junk, head, stack, status, out, errout>>

\* One iteration of the second LIST_FOREACH: the lines of a block, then an
\* empty line.
PrintBlock ==
    /\ pc = "print"
    /\ cursor <= Len(head)
    /\ \E base \in (IF head[cursor].block_type = IEEE1212_DIRECTORY_BLOCK
                    THEN directory_bases(head, head[cursor]) ELSE {NoParent}) :
          \/ /\ base # WildPointer
             /\ out' = out \o format(data, junk, head, head[cursor], base, length)
                           \o <<EmptyLine>>
             /\ cursor' = cursor + 1
             /\ ev' = "print:block"
             /\ UNCHANGED <<pc, status>>
          \/ /\ base = WildPointer
             /\ status' = SIGSEGV
             /\ pc' = "done"
             /\ ev' = "print:crash"
             /\ UNCHANGED <<out, cursor>>
    /\ UNCHANGED <<stdin, data, length, junk, head, stack, err, errout>>

\* The buffers are freed; print_blocks() returns 0.
PrintReturn ==
    /\ pc = "print"
    /\ cursor > Len(head)
    /\ err' = OK
    /\ pc' = "end"
    /\ ev' = "printed"
    /\ UNCHANGED <<stdin, data, length, junk, head, stack, cursor, status, out, errout>>

\* end: the list is freed; EXIT_FAILURE if err < 0, EXIT_SUCCESS otherwise.
End ==
    /\ pc = "end"
    /\ head' = <<>>
    /\ status' = IF err # OK THEN EXIT_FAILURE ELSE EXIT_SUCCESS
    /\ pc' = "done"
    /\ ev' = "exit"
    /\ UNCHANGED <<stdin, data, length, junk, stack, cursor, err, out, errout>>

Next ==
    \/ Isatty
    \/ Read
    \/ Endian
    \/ DetectBusInfo
    \/ DetectRoot
    \/ DetectEntry
    \/ DetectReturn
    \/ Normalize
    \/ Fill
    \/ FillReturn
    \/ PrintAlloc
    \/ PrintBlock
    \/ PrintReturn
    \/ End

Spec == Init /\ [][Next]_vars

-----------------------------------------------------------------------------
(* Properties. *)

\* The list covers [0, len) without gap or overlap, in list order.
Tiles(list, len) ==
    /\ list # <<>>
    /\ list[1].offset = 0
    /\ \A k \in 1..(Len(list) - 1) :
          list[k + 1].offset = list[k].offset + list[k].length
    /\ list[Len(list)].offset + list[Len(list)].length = len

\* C1. Tiling: when discovery has succeeded, after normalize_blocks() and
\* fulfill_orphan_blocks() the first block is at offset 0, every block starts
\* where the one before it ends, and the last block ends at the input length.
C1_Tiling ==
    pc \in {"print_alloc", "print"} => Tiles(head, length)

\* C1 happens: the list that is about to be printed holds a block that
\* normalize_blocks() shortened and an orphan block of fulfill_orphan_blocks().
C1_Witness ==
    /\ pc = "print_alloc"
    /\ \E k \in 1..Len(head) : head[k].block_type = ORPHAN_BLOCK
    /\ \E k \in 1..Len(head) :
          /\ head[k].block_type = IEEE1212_ROOT_DIRECTORY_BLOCK
          /\ head[k].length <
                 detect_ieee1212_block_length(QuadletAt(data, junk, head[k].offset))

\* The entry the loop of detect_ieee1212_directory_entries() is at.
CurrentEntry ==
    decode_directory_entry(
        QuadletAt(data, junk, Top(stack).directory_offset + Top(stack).i * 4))

CurrentTarget ==
    Top(stack).directory_offset + Top(stack).i * 4 + 4 * CurrentEntry.value

NoTwoBlocksShareAnOffset ==
    \A k, l \in 1..Len(head) : head[k].offset = head[l].offset => k = l

\* A step of discovery keeps every descriptor of the list as it is.
DescriptorsKept ==
    pc = "detect_entries" =>
        \A k \in 1..Len(head) : \E l \in 1..Len(head') : head'[l] = head[k]

\* An entry whose target is listed adds nothing and starts no activation.
ListedTargetSkipped ==
    ev' = "entry:listed" =>
        /\ block_is_listed(head, CurrentTarget)
        /\ head' = head
        /\ Len(stack') = Len(stack)

\* An entry whose target is new adds one descriptor, with the key id of the
\* entry and the directory of the entry as parent.
NewTargetRecorded ==
    ev' \in {"entry:leaf", "entry:directory"} =>
        /\ ~block_is_listed(head, CurrentTarget)
        /\ Len(head') = Len(head) + 1
        /\ \E l \in 1..Len(head') :
              /\ head'[l].offset = CurrentTarget
              /\ head'[l].key_id = CurrentEntry.key_id
              /\ head'[l].parent = Top(stack).parent

\* C2. Deduplication: a leaf or directory block is in the list once however
\* many entries target its offset; its parent and key id are those of the entry
\* that inserted it, the first one in traversal order, and a later entry with
\* the same target neither adds a descriptor, nor changes one, nor recurses.
C2_Deduplication ==
    /\ []NoTwoBlocksShareAnOffset
    /\ [][DescriptorsKept /\ ListedTargetSkipped /\ NewTargetRecorded]_vars

\* C2 happens: an entry was skipped because its target was listed, and the
\* listed block keeps a key id that is not the one of the skipped entry.
C2_Witness ==
    /\ ev = "entry:listed"
    /\ \E k \in 1..Len(head) :
          /\ head[k].block_type = IEEE1212_DIRECTORY_BLOCK
          /\ head[k].key_id = KEY_ID_CSR_UNIT
          /\ \E t \in 1..Len(stack) :
                LET skipped == stack[t].directory_offset + (stack[t].i - 1) * 4
                    e == decode_directory_entry(QuadletAt(data, junk, skipped))
                IN  /\ stack[t].i > 0
                    /\ e.key_type = KEY_TYPE_DIRECTORY
                    /\ skipped + 4 * e.value = head[k].offset
                    /\ e.key_id # head[k].key_id

\* C3. Endian detection: the quadlet at index 1 is inspected as loaded; if and
\* only if it is 0x31333934 every complete quadlet of the buffer is swapped in
\* place, and in all other cases the buffer is left as it is.
C3_EndianDetection ==
    [][pc = "endian" =>
          data' = IF QuadletAt(data, junk, 4) = BUS_NAME_1394
                  THEN SwapQuadlets(data, length)
                  ELSE data]_vars

\* The input is a whole image whose bus name quadlet is "1394" in one of the
\* two byte orders.
ImageOf1394 ==
    /\ stdin.result = 4 * Len(stdin.image)
    /\ Len(stdin.image) >= 2
    /\ stdin.image[2] \in {BUS_NAME_1394, BUS_NAME_1394_SWAPPED}

\* C4. Endian idempotence: for an image B whose bus name quadlet is "1394",
\* the run on B and the run on B with every quadlet byte-reversed go on with
\* the same buffer, hence find the same blocks and print the same output.
C4_EndianIdempotence ==
    (pc = "detect_bus_info" /\ ImageOf1394) =>
        data = main_endian(SwapQuadlets(stdin.image, length), junk, length)

\* The length in quadlets that the header of a block declares.
DeclaredBusInfoQuadlets(quadlet) == quadlet[1]

DeclaredQuadlets(quadlet) == quadlet[1] * 256 + quadlet[2]

\* The step of discovery that is about to be taken visits a block header that
\* declares a length past the end of the input.
VisitsOverLongBlock ==
    \/ /\ pc = "detect_bus_info"
       /\ 0 + 4 + 4 * DeclaredBusInfoQuadlets(QuadletAt(data, junk, 0)) > length
    \/ /\ pc = "detect_root"
       /\ head[1].length + 4
            + 4 * DeclaredQuadlets(QuadletAt(data, junk, head[1].length)) > length
    \/ /\ pc = "detect_entries"
       /\ Top(stack).i < Top(stack).quadlet_count
       /\ CurrentEntry.key_type \in {KEY_TYPE_LEAF, KEY_TYPE_DIRECTORY}
       /\ CurrentTarget < length
       /\ CurrentTarget + 4
            + 4 * DeclaredQuadlets(QuadletAt(data, junk, CurrentTarget)) > length

\* C5. Fail-fast on over-long blocks: a block header visited by discovery that
\* declares offset + 4 + 4 * length past the input length makes discovery
\* fail, the run exit with non-zero status, and nothing is written to stdout.
C5_FailFast ==
    [][VisitsOverLongBlock => (pc' = "end" /\ err' # OK /\ out' = <<>>)]_vars

\* The steps at which an allocation fails.
AllocationFailures ==
    { "bus_info:ENOMEM", "root:ENOMEM", "entry:ENOMEM", "fill:ENOMEM",
      "print:ENOMEM", "print:line_ENOMEM" }

\* C6. Allocation failure is always fatal: after a failed allocation of a
\* block descriptor, of an orphan descriptor, of the array of lines or of a
\* line buffer, the process exits with non-zero status.
C6_AllocationFailureFatal ==
    [][(pc = "end" /\ ev \in AllocationFailures) => status' = EXIT_FAILURE]_vars

\* The lines of a block are in the output: its metadata line or, for an orphan
\* block, the line of each of its complete quadlets.
Rendered(o, block) ==
    IF block.block_type = ORPHAN_BLOCK
    THEN \A i \in 0..(block.length \div 4 - 1) :
            \E k \in 1..Len(o) :
               /\ o[k].kind = "unreferenced"
               /\ o[k].off = IEEE1212_CONFIG_ROM_OFFSET + block.offset + 4 * i
    ELSE \E k \in 1..Len(o) :
            /\ o[k].kind \in {"bus_info_metadata", "directory_metadata",
                              "leaf_metadata"}
            /\ o[k].off = IEEE1212_CONFIG_ROM_OFFSET + block.offset

\* C7. Annotational anomalies are never fatal: once discovery has succeeded
\* and the lines are allocated, whatever the CRCs, bus name, specifier, key
\* ids and truncations, every block of the list is rendered and the exit
\* status is zero.
C7_AnomaliesNotFatal ==
    [][/\ pc = "print" => status' = Running
       /\ ev' = "printed" =>
             (err' = OK /\ \A k \in 1..Len(head) : Rendered(out, head[k]))
       /\ (pc = "end" /\ ev = "printed") => status' = EXIT_SUCCESS]_vars

\* C8. Every fatal condition is diagnosed: a run that ends with non-zero
\* status has written a diagnostic to the error stream, and a successful run
\* has written nothing to it.
C8_FatalDiagnosed ==
    pc = "done" =>
        /\ status = EXIT_FAILURE => errout # <<>>
        /\ status = EXIT_SUCCESS => errout = <<>>

\* The input is one complete bus information block and nothing after it.
OnlyBusInfoBlock ==
    /\ stdin.result = 4 * Len(stdin.image)
    /\ Len(stdin.image) >= 3
    /\ stdin.result = 4 + 4 * DeclaredBusInfoQuadlets(stdin.image[1])
    /\ stdin.image[2] = BUS_NAME_1394

\* C9. Minimal bus information input: an input of exactly one complete bus
\* information block is processed as a truncated ROM; the run succeeds and the
\* block is rendered with its header line, bus_name line and EUI-64 line.
C9_MinimalBusInfo ==
    (pc = "done" /\ OnlyBusInfoBlock) =>
        /\ status = EXIT_SUCCESS
        /\ \E k \in 1..Len(out) : out[k].kind = "bus_info_metadata"
        /\ \E k \in 1..Len(out) : out[k].kind = "bus_name"
        /\ \E k \in 1..Len(out) : out[k].kind = "device_id"

\* Every block has been printed and the list is still allocated.
AllPrinted == pc = "print" /\ cursor > Len(head)

DirectoryBlocks ==
    { k \in 1..Len(head) :
        head[k].block_type \in {IEEE1212_ROOT_DIRECTORY_BLOCK, IEEE1212_DIRECTORY_BLOCK} }

\* The entries of a directory block, by index from 1, and their decoding.
EntryIndexes(block) == 1..(block.length \div 4 - 1)

EntryOf(block, i) ==
    decode_directory_entry(QuadletAt(data, junk, block.offset + 4 * i))

IsImmediate(e, key_id) == e.key_type = KEY_TYPE_IMMEDIATE /\ e.key_id = key_id

\* The registered spec of a specifier id and a version.
IsRegistered(v1, v2) == spec_entry_matches(spec_identifier(v1, v2)) # {}

RegisteredSpec(v1, v2) ==
    LET found == spec_entry_matches(spec_identifier(v1, v2))
    IN  spec_entries[CHOOSE i \in found : \A k \in found : i <= k]

\* The line of entry i of the block shows the name of the spec as prefix.
RenderedWithSpecName(o, block, i, spec_name) ==
    \E k \in 1..Len(o) :
       /\ o[k].off = IEEE1212_CONFIG_ROM_OFFSET + block.offset + 4 * i
       /\ o[k].kind \in {"immediate", "csr_offset", "leaf", "directory"}
       /\ o[k].spec = spec_name

\* Every entry of the block that is in the table of the spec shows its name.
EntriesRenderedWith(o, block, spec) ==
    \A i \in EntryIndexes(block) :
       formatter_matches(spec.formatters, EntryOf(block, i).key_type,
                         EntryOf(block, i).key_id) # {}
           => RenderedWithSpecName(o, block, i, spec.spec_name)

RECURSIVE IsDescendant(_, _, _)
\* The block is below the directory at ancestor_offset in the parent chain.
IsDescendant(list, block, ancestor_offset) ==
    /\ block.parent # NoParent
    /\ \/ block.parent = ancestor_offset
       \/ IsDescendant(list, block_at(list, block.parent), ancestor_offset)

FirstIdentifierEntries(block, i1, i2) ==
    /\ IsImmediate(EntryOf(block, i1), KEY_ID_CSR_SPECIFIER_ID)
    /\ \A i \in 1..(i1 - 1) :
          /\ ~IsImmediate(EntryOf(block, i), KEY_ID_CSR_SPECIFIER_ID)
          /\ ~IsImmediate(EntryOf(block, i), KEY_ID_CSR_VENDOR_INFO)
    /\ IsImmediate(EntryOf(block, i2), KEY_ID_CSR_VERSION)
    /\ \A i \in 1..(i2 - 1) : ~IsImmediate(EntryOf(block, i), KEY_ID_CSR_VERSION)

\* The block is a directory referenced from the directory at parent_offset
\* under a key id whose identifier is taken from the parent first.
IsDependentOf(block, parent_offset) ==
    /\ block.block_type = IEEE1212_DIRECTORY_BLOCK
    /\ block.parent = parent_offset
    /\ block.key_id \in BaseIsParent

SameBlock(o, k, l) == \A m \in k..l : o[m] # EmptyLine

\* C11. Offset bias: every content line that shows a raw quadlet carries the
\* byte offset of that quadlet in the input plus 0x400, and the quadlet; two
\* lines of a block, which show quadlets at different offsets, never carry
\* the same offset, the trailing quadlets of a bus information block of more
\* than five quadlets included.
C11_OffsetBias ==
    /\ \A k \in 1..Len(out) :
          out[k].off # -1 =>
             /\ out[k].off >= IEEE1212_CONFIG_ROM_OFFSET
             /\ out[k].quad =
                   QuadletAt(data, junk, out[k].off - IEEE1212_CONFIG_ROM_OFFSET)
    /\ \A k, l \in 1..Len(out) :
          (k < l /\ out[k].off # -1 /\ SameBlock(out, k, l))
              => out[k].off # out[l].off

\* The blocks of the list that have a header line.
HeaderBlocks == { k \in 1..Len(head) : head[k].block_type # ORPHAN_BLOCK }

\* The CRC field of the header of a block.
CrcField(block) ==
    LET q0 == QuadletAt(data, junk, block.offset) IN q0[3] * 256 + q0[4]

\* The number of quadlets after the header that the CRC is specified to cover.
SpecifiedCrcQuadlets(block) ==
    LET q0 == QuadletAt(data, junk, block.offset)
    IN  IF block.block_type = IEEE1212_BUS_INFO_BLOCK
        THEN q0[2] ELSE q0[1] * 256 + q0[2]

\* The number of quadlets after the header that the rendering covers: those of
\* crc_length, or the ones the input holds, for the bus information block;
\* those of the length of the block in the list for the other blocks.
CoveredCrcQuadlets(block) ==
    IF block.block_type = IEEE1212_BUS_INFO_BLOCK
    THEN IF 4 * (SpecifiedCrcQuadlets(block) + 1) <= length
         THEN SpecifiedCrcQuadlets(block)
         ELSE (length - 4) \div 4
    ELSE block.length \div 4 - 1

\* The header line of the block carries no "(should be N)" when the CRC field
\* is the CRC of the n quadlets after the header, and N, that CRC, otherwise.
AnnotatedAgainst(o, block, n) ==
    LET computed ==
            compute_itu_t_crc_16(QuadletsAt(data, junk, block.offset + 4, n))
    IN  \E k \in 1..Len(o) :
           /\ o[k].off = IEEE1212_CONFIG_ROM_OFFSET + block.offset
           /\ o[k].kind \in {"bus_info_metadata", "directory_metadata",
                             "leaf_metadata"}
           /\ o[k].info[Len(o[k].info)] =
                 IF CrcField(block) = computed THEN -1 ELSE computed

\* C12. CRC round-trip: for any block whose specified quadlets (crc_length of
\* them for the bus information block, the declared length for the others)
\* are in the input, the header line carries no "(should be N)" when the CRC
\* field is their CRC, and N, the computed value, when it is not.
C12_CrcRoundTrip ==
    AllPrinted =>
        \A k \in HeaderBlocks :
            head[k].offset + 4 + 4 * SpecifiedCrcQuadlets(head[k]) <= length
                => AnnotatedAgainst(out, head[k], SpecifiedCrcQuadlets(head[k]))

\* C12, as the code has it: the CRC is computed over crc_length quadlets, or
\* the quadlets the input holds if they are fewer, for the bus information
\* block, and over the quadlets of the length the block has in the list, which
\* normalize_blocks() may have shortened, for the other blocks.
C12_CrcOfRenderedLength ==
    AllPrinted =>
        \A k \in HeaderBlocks :
            AnnotatedAgainst(out, head[k], CoveredCrcQuadlets(head[k]))

\* C12 happens: a bus information block whose CRC field is the CRC of its six
\* quadlets is printed without annotation, and a root directory that was
\* shortened to one entry is printed with the CRC of that entry.
C12_Witness ==
    /\ AllPrinted
    /\ \E k, l \in 1..Len(out) :
          /\ out[k].kind = "bus_info_metadata"
          /\ out[k].info[2] = 6
          /\ out[k].info[4] # 0
          /\ out[k].info[5] = -1
          /\ out[l].kind = "directory_metadata"
          /\ out[l].info[2] = 1
          /\ out[l].info[4] # -1

\* The stages of main() in their order: reading, endian detection, discovery,
\* clamping, orphan fill, allocation of the lines, printing, end.
Stage(p) ==
    CASE p = "isatty" -> 0
      [] p = "read" -> 1
      [] p = "endian" -> 2
      [] p \in {"detect_bus_info", "detect_root", "detect_entries"} -> 3
      [] p = "normalize" -> 4
      [] p = "fill" -> 5
      [] p = "print_alloc" -> 6
      [] p = "print" -> 7
      [] p = "end" -> 8
      [] p = "done" -> 9

BlankLines(o) == Cardinality({ k \in 1..Len(o) : o[k] = EmptyLine })

\* A step goes on in its stage, moves to the next one, or leaves for the end.
StagesInOrder == Stage(pc') \in {Stage(pc), Stage(pc) + 1, 8, 9}

\* The buffer changes before discovery only, blocks are inserted by discovery
\* and by the orphan fill only, and a length changes by clamping only.
StagesDoTheirWork ==
    /\ data' # data => Stage(pc) \in {1, 2}
    /\ Len(head') > Len(head) => Stage(pc) \in {3, 5}
    /\ (Len(head') = Len(head) /\ head' # head) => Stage(pc) = 4

\* A step that writes to standard output is taken after discovery, clamping
\* and orphan fill have succeeded, and writes the lines of the next block of
\* the list followed by one blank line.
WritesNextBlock ==
    out' # out =>
        /\ Stage(pc) = 7
        /\ err = OK
        /\ Tiles(head, length)
        /\ cursor' = cursor + 1
        /\ Len(out') > Len(out)
        /\ SubSeq(out', 1, Len(out)) = out
        /\ out'[Len(out')] = EmptyLine
        /\ \A k \in (Len(out) + 1)..(Len(out') - 1) : out'[k] # EmptyLine
        /\ Rendered(SubSeq(out', Len(out) + 1, Len(out') - 1), head[cursor])

\* While printing, the blocks before the cursor are the ones written, and
\* print_blocks() returns when the cursor has passed the last block.
WrittenUpToCursor ==
    /\ pc = "print" => (cursor <= Len(head) + 1 /\ BlankLines(out) = cursor - 1)
    /\ ev = "printed" => BlankLines(out) = Len(head)
    /\ Stage(pc) < 7 => out = <<>>

Normalized == pc \in {"fill", "print_alloc", "print"}

\* The length in quadlets that the header of a block of the list declares.
DeclaredOf(block) ==
    IF block.block_type = IEEE1212_BUS_INFO_BLOCK
    THEN DeclaredBusInfoQuadlets(QuadletAt(data, junk, block.offset))
    ELSE DeclaredQuadlets(QuadletAt(data, junk, block.offset))

\* The offset of the next block with a header after block k, or the input
\* length.
NextHeaderOffset(k) ==
    LET later == { l \in HeaderBlocks : l > k }
    IN  IF later = {} THEN length
        ELSE head[CHOOSE l \in later : \A m \in later : l <= m].offset

\* C14. Length invariant, as specified: for every non-orphan block of the
\* normalized list, declared length * 4 + 4 <= the length of the block.
C14_LengthInvariant ==
    Normalized =>
        \A k \in HeaderBlocks : DeclaredOf(head[k]) * 4 + 4 <= head[k].length

\* C14, as the code has it: for every non-orphan block of the normalized
\* list, 4 <= the length of the block <= declared length * 4 + 4, with
\* equality when the declared length ends at or before the next block, or the
\* end of the input for the last one.
C14_LengthBound ==
    Normalized =>
        \A k \in HeaderBlocks :
            /\ 4 <= head[k].length
            /\ head[k].length <= DeclaredOf(head[k]) * 4 + 4
            /\ head[k].offset + DeclaredOf(head[k]) * 4 + 4 <= NextHeaderOffset(k)
                   => head[k].length = DeclaredOf(head[k]) * 4 + 4

\* C14 happens: the normalized list holds a directory that keeps the two
\* entries it declares or more, and a block that was shortened because the
\* quadlets it declares, which the input holds, run into the next block.
C14_Witness ==
    /\ pc = "fill"
    /\ \E k \in HeaderBlocks :
          /\ DeclaredOf(head[k]) >= 2
          /\ head[k].length = DeclaredOf(head[k]) * 4 + 4
    /\ \E k \in HeaderBlocks :
          /\ head[k].offset + DeclaredOf(head[k]) * 4 + 4 <= length
          /\ head[k].length < DeclaredOf(head[k]) * 4 + 4

\* C15. Bus information block length: for every header quadlet q the length
\* computed for the bus information block is 4 + 4 * ((q >> 24) & 0xff).
C15_BusInfoBlockLength ==
    pc = "detect_bus_info" =>
        detect_ieee1212_bus_info_block_length(QuadletAt(data, junk, 0))
            = 4 + 4 * DeclaredBusInfoQuadlets(QuadletAt(data, junk, 0))

\* C16. Directory and leaf block length: for every header quadlet q the length
\* computed for a root directory, directory or leaf block is
\* 4 + 4 * ((q >> 16) & 0xffff), so that a header whose length field is 0x4000
\* or more is never accepted as fitting in the buffer.
C16_BlockLength ==
    /\ pc = "detect_root" =>
          detect_ieee1212_block_length(QuadletAt(data, junk, head[1].length))
              = 4 + 4 * DeclaredQuadlets(QuadletAt(data, junk, head[1].length))
    /\ Stage(pc) = 3 =>
          \A k \in 1..Len(head) :
              head[k].block_type # IEEE1212_BUS_INFO_BLOCK =>
                  /\ DeclaredQuadlets(QuadletAt(data, junk, head[k].offset)) < 16384
                  /\ head[k].length =
                        4 + 4 * DeclaredQuadlets(QuadletAt(data, junk, head[k].offset))

\* Discovery is at an entry of a directory: its offset, its quadlet, the two
\* bits of its key type and the offset entry_offset + 4 * value it refers to.
AtEntry == pc = "detect_entries" /\ Top(stack).i < Top(stack).quadlet_count

EntryOffset == Top(stack).directory_offset + 4 * Top(stack).i

EntryKeyType == QuadletAt(data, junk, EntryOffset)[1] \div 64

EntryTarget ==
    LET q == QuadletAt(data, junk, EntryOffset)
    IN  EntryOffset + 4 * (q[2] * 65536 + q[3] * 256 + q[4])

\* A leaf or directory entry whose target is at or past the input length fails
\* with -ENOSPC, whatever the quadlets and the list hold.
OutOfRangeFails ==
    (AtEntry /\ EntryKeyType \in {KEY_TYPE_LEAF, KEY_TYPE_DIRECTORY}
             /\ EntryTarget >= length)
        => (err' = ENOSPC /\ pc' = "end" /\ head' = head)

\* -ENOSPC is returned for such an entry only.
OutOfSpaceOnlyThen ==
    ev' = "entry:ENOSPC" =>
        (AtEntry /\ EntryKeyType \in {KEY_TYPE_LEAF, KEY_TYPE_DIRECTORY}
                 /\ EntryTarget >= length)

\* An immediate or CSR offset entry never fails and never adds a block.
ValueEntryPasses ==
    (AtEntry /\ EntryKeyType \in {KEY_TYPE_IMMEDIATE, KEY_TYPE_CSR_OFFSET})
        => (head' = head /\ err' = err /\ pc' = pc
            /\ Top(stack').i = Top(stack).i + 1)

\* The run that failed with -ENOSPC exits with non-zero status.
OutOfSpaceExit == (pc = "end" /\ err = ENOSPC) => status' = EXIT_FAILURE

\* C17. Out-of-range reference: for every leaf or directory entry visited by
\* discovery the target is entry_offset + 4 * value; when it is at or past the
\* input length discovery fails with the out-of-space error, before any header
\* is read or the list is looked up, and the run exits non-zero; immediate and
\* CSR offset entries never fail and never add a block.
C17_OutOfRangeReference ==
    [][OutOfRangeFails /\ OutOfSpaceOnlyThen /\ ValueEntryPasses
       /\ OutOfSpaceExit]_vars

\* C17 happens: the run has ended with non-zero status after an entry of a
\* directory below the root referred past the input.
C17_Witness ==
    /\ pc = "done"
    /\ err = ENOSPC
    /\ status = EXIT_FAILURE
    /\ out = <<>>
    /\ \E i \in 1..Len(stdin.image) :
          /\ stdin.image[i][1] \div 64 = KEY_TYPE_DIRECTORY
          /\ 4 * (i - 1) + 4 * stdin.image[i][4] < stdin.result

\* The smaller of two numbers.
Min(a, b) == IF a <= b THEN a ELSE b

\* The offset of the successor of block k, or the buffer length for the last.
SuccessorOffset(list, k) ==
    IF k = Len(list) THEN length ELSE list[k + 1].offset

\* The step of normalize_blocks(): the same blocks in the same order, each
\* with the smaller of its length and the distance to its successor, and with
\* its offset, type, key id and parent as they were.
ClampsLengths ==
    pc = "normalize" =>
        /\ Len(head') = Len(head)
        /\ \A k \in 1..Len(head) :
              /\ head'[k].length =
                    Min(head[k].length, SuccessorOffset(head, k) - head[k].offset)
              /\ head'[k].length <= head[k].length
              /\ head'[k] = [head[k] EXCEPT !.length = head'[k].length]

\* Any other step before the list is freed keeps every descriptor as it is.
DescriptorsFrozen ==
    pc \notin {"normalize", "end"} =>
        \A k \in 1..Len(head) : \E l \in 1..Len(head') : head'[l] = head[k]

\* C18. Clamp effect: normalize_blocks() sets the length of each block to
\* min(length, next_offset - offset), next_offset being the offset of the
\* successor or the buffer length for the last block; it increases no length,
\* changes no offset, type, key id or parent, and adds or removes no block;
\* outside normalization no descriptor is changed.
C18_ClampEffect == [][ClampsLengths /\ DescriptorsFrozen]_vars

\* C18 happens: normalize_blocks() has shortened one block of the list and
\* left another one, which has a key id and a parent, as it was.
C18_Witness ==
    /\ ev = "normalized"
    /\ \E k \in 1..Len(head) :
          /\ k < Len(head)
          /\ head[k].block_type # IEEE1212_BUS_INFO_BLOCK
          /\ head[k].length = head[k + 1].offset - head[k].offset
          /\ head[k].length <
                 detect_ieee1212_block_length(QuadletAt(data, junk, head[k].offset))
    /\ \E k \in 1..Len(head) :
          /\ head[k].parent # NoParent
          /\ head[k].length =
                 detect_ieee1212_block_length(QuadletAt(data, junk, head[k].offset))

\* The end of block k of a list, and whether a gap follows it.
EndOf(list, k) == list[k].offset + list[k].length

GapAfter(list, k) == EndOf(list, k) < SuccessorOffset(list, k)

\* The loop of fulfill_orphan_blocks() is at a block.
AtFill == pc = "fill" /\ cursor <= Len(head)

\* At a block followed by a gap the step inserts, unless malloc() fails, one
\* orphan block that covers the gap, immediately after the block, and leaves
\* every other descriptor and the order of the list as they were.
FillsGap ==
    (AtFill /\ GapAfter(head, cursor) /\ ev' # "fill:ENOMEM") =>
        /\ Len(head') = Len(head) + 1
        /\ \A k \in 1..cursor : head'[k] = head[k]
        /\ \A k \in (cursor + 1)..Len(head) : head'[k + 1] = head[k]
        /\ head'[cursor + 1].block_type = ORPHAN_BLOCK
        /\ head'[cursor + 1].offset = EndOf(head, cursor)
        /\ head'[cursor + 1].length =
               SuccessorOffset(head, cursor) - EndOf(head, cursor)

\* At a block that no gap follows the step changes nothing and goes on.
SkipsNoGap ==
    (AtFill /\ ~GapAfter(head, cursor)) => (head' = head /\ cursor' = cursor + 1)

\* No two orphan blocks are adjacent, and during the fill every block before
\* the cursor is followed by no gap.
NoAdjacentOrphans ==
    \A k \in 1..(Len(head) - 1) :
        ~(head[k].block_type = ORPHAN_BLOCK /\ head[k + 1].block_type = ORPHAN_BLOCK)

FilledBeforeCursor ==
    pc = "fill" => \A k \in 1..(cursor - 1) : ~GapAfter(head, k)

\* C19. Fill effect: for each block followed by a gap before the next block,
\* or before the end of the buffer for the last one, fulfill_orphan_blocks()
\* inserts exactly one orphan block with offset = offset + length and
\* length = next_offset - (offset + length) immediately after it; no orphan is
\* made where there is no gap, no two orphans are adjacent, and no existing
\* block is modified.
C19_FillEffect ==
    /\ [](NoAdjacentOrphans /\ FilledBeforeCursor)
    /\ [][FillsGap /\ SkipsNoGap]_vars

\* C19 happens: fulfill_orphan_blocks() has returned a list with an orphan
\* block that covers the gap between a directory and the block it references.
C19_Witness ==
    /\ ev = "filled"
    /\ \E k \in 2..(Len(head) - 1) :
          /\ head[k].block_type = ORPHAN_BLOCK
          /\ head[k - 1].block_type # ORPHAN_BLOCK
          /\ head[k].offset = EndOf(head, k - 1)
          /\ EndOf(head, k) = head[k + 1].offset
          /\ head[k + 1].parent = head[k - 1].offset

\* The recurrence of the specification on vectors of 16 bits, bit 0 being the
\* least significant one.  (q >> shift) AND 0xF for a quadlet and a shift:
ShiftedDigit(q, shift) == (q[4 - shift \div 8] \div (2 ^ (shift % 8))) % 16

\* sum = ((crc >> 12) XOR (q >> shift)) AND 0xF, as four bits.
SumBits(c, digit) == [i \in 0..3 |-> (c[12 + i] + Bit(digit, i)) % 2]

\* crc = ((crc << 4) XOR (sum << 12) XOR (sum << 5) XOR sum) AND 0xFFFF.
RecurrenceStep(c, digit) ==
    LET sum == SumBits(c, digit)
    IN  [i \in 0..15 |->
            ( (IF i >= 4 THEN c[i - 4] ELSE 0)
            + (IF i >= 12 THEN sum[i - 12] ELSE 0)
            + (IF i \in 5..8 THEN sum[i - 5] ELSE 0)
            + (IF i <= 3 THEN sum[i] ELSE 0) ) % 2]

RECURSIVE Recurrence(_, _, _, _)
\* For each quadlet from the i-th on, and each shift from the given one down
\* to 0 in steps of 4.
Recurrence(c, quadlets, i, shift) ==
    IF c \in [0..15 -> {0, 1}] /\ i <= Len(quadlets)
    THEN Recurrence(RecurrenceStep(c, ShiftedDigit(quadlets[i], shift)), quadlets,
                    IF shift = 0 THEN i + 1 ELSE i,
                    IF shift = 0 THEN 28 ELSE shift - 4)
    ELSE c

\* The number a vector of 16 bits stands for.
BitsValue(c) ==
    c[0] + 2 * c[1] + 4 * c[2] + 8 * c[3] + 16 * c[4] + 32 * c[5] + 64 * c[6]
    + 128 * c[7] + 256 * c[8] + 512 * c[9] + 1024 * c[10] + 2048 * c[11]
    + 4096 * c[12] + 8192 * c[13] + 16384 * c[14] + 32768 * c[15]

SpecifiedCrc(quadlets) ==
    BitsValue(Recurrence([i \in 0..15 |-> 0], quadlets, 1, 28))

\* compute_itu_t_crc_16() returns the value of the recurrence, in 0..0xFFFF.
CrcAsSpecified(quadlets) ==
    LET crc == compute_itu_t_crc_16(quadlets)
    IN  crc \in 0..65535 /\ crc = SpecifiedCrc(quadlets)

\* C20. CRC-16 algorithm: for every sequence of quadlets,
\* compute_itu_t_crc_16() returns the value of the specified recurrence, which
\* is in 0..0xFFFF, and 0 for the empty sequence.  The sequences are the
\* ones print_blocks() is about to pass to it: the quadlets the header line of
\* each block covers.
C20_CrcAlgorithm ==
    /\ compute_itu_t_crc_16(<<>>) = 0
    /\ pc = "print_alloc" =>
          \A k \in HeaderBlocks :
              CrcAsSpecified(QuadletsAt(data, junk, head[k].offset + 4,
                                        CoveredCrcQuadlets(head[k])))

\* C20 happens: the CRC of the six quadlets of a bus information block has
\* been computed for its header line and is 0xe269, the value of its header.
C20_Witness ==
    /\ AllPrinted
    /\ CoveredCrcQuadlets(head[1]) = 6
    /\ SpecifiedCrc(QuadletsAt(data, junk, 4, 6)) = 57961
    /\ CrcField(head[1]) = 57961
    /\ AnnotatedAgainst(out, head[1], 6)

-----------------------------------------------------------------------------
\* The root directory, directory and leaf blocks of the list.
DeclaredLengthBlocks ==
    { k \in HeaderBlocks : head[k].block_type # IEEE1212_BUS_INFO_BLOCK }

\* The header line of a block in the output.
HeaderLine(o, block) ==
    o[CHOOSE k \in 1..Len(o) :
        /\ o[k].off = IEEE1212_CONFIG_ROM_OFFSET + block.offset
        /\ o[k].kind \in {"directory_metadata", "leaf_metadata"}]

\* The CRC that was compared with the CRC field, as the header line shows it:
\* the CRC field when there is no "(should be N)", N otherwise.
ComparedCrc(o, block) ==
    LET info == HeaderLine(o, block).info
    IN  IF info[4] = -1 THEN info[3] ELSE info[4]

-----------------------------------------------------------------------------
\* The identifiers of the lookups that are checked: every registered spec, no
\* identifier at all, a registered specifier id without version and with a
\* version that is not registered, a registered version with another
\* specifier id.
LookupIdentifiers ==
    { spec_identifier(spec_entries[i].specifier_id, spec_entries[i].version) :
        i \in 1..Len(spec_entries) }
    \cup { spec_identifier(INVALID_KEY_VALUE, INVALID_KEY_VALUE),
           spec_identifier(24734, INVALID_KEY_VALUE),
           spec_identifier(24734, 0),
           spec_identifier(0, 66691) }

\* The entries of a table with the key type and the key id.
EntriesFor(formatters, key_type, key_id) ==
    { formatters[i] : i \in formatter_matches(formatters, key_type, key_id) }

\* The registered specs that the identifier matches and whose table has the
\* key type and the key id.
SpecHits(identifier, key_type, key_id) ==
    { i \in 1..Len(spec_entries) :
        /\ spec_entries[i].specifier_id = identifier.specifier_id
        /\ spec_entries[i].version = identifier.version
        /\ EntriesFor(spec_entries[i].formatters, key_type, key_id) # {} }

\* What the lookup is specified to give: the result r is a formatter of the
\* key type, from the table of the spec with its name when that table has the
\* key, and without name from the bus table, else the CSR table, else the
\* defaults otherwise.
LookupOrder(r, identifier, key_type, key_id) ==
    LET hits == SpecHits(identifier, key_type, key_id)
        bus == EntriesFor(ieee1394_bus_key_formatters, key_type, key_id)
        csr == EntriesFor(csr_key_formatters, key_type, key_id)
    IN  /\ r.formatter.key_type = key_type
        /\ hits # {} =>
               \E i \in hits :
                  /\ r.spec_name = spec_entries[i].spec_name
                  /\ r.formatter \in EntriesFor(spec_entries[i].formatters,
                                                key_type, key_id)
        /\ hits = {} =>
               /\ r.spec_name = NULL
               /\ IF bus # {} THEN r.formatter \in bus
                  ELSE IF csr # {} THEN r.formatter \in csr
                  ELSE r.formatter.key_id = INVALID_KEY_ID
                       /\ r.formatter.key_id_name = UNSPECIFIED_ENTRY_NAME

\* The lines of the immediate entries of the output are the lines of a lookup
\* in the specified order, for the key of the entry and some identifier.
EntriesLookedUp(o) ==
    \A k \in 1..Len(o) :
       o[k].kind = "immediate" =>
          LET e == decode_directory_entry(o[k].quad)
          IN  \E identifier \in LookupIdentifiers :
                 LET r == detect_key_formatter(identifier, e.key_type, e.key_id)
                 IN  /\ LookupOrder(r, identifier, e.key_type, e.key_id)
                     /\ o[k].spec = r.spec_name
                     /\ o[k].name = entry_name(r.formatter)
                     /\ o[k].fmt = entry_content(r.formatter)

\* C22. Formatter lookup order: for every identifier, key type and key id,
\* detect_key_formatter() gives the entry of the table of the registered spec
\* that the identifier matches when that table has (key_type, key_id), and
\* only then a spec_name; otherwise the entry of the IEEE 1394 bus table,
\* otherwise the entry of the CSR table, otherwise the default formatter of
\* the key type, and no spec_name in these three cases; the result is never
\* null.  The function has no state: the statement for all key types and key
\* ids is evaluated where the run starts on a terminal, and the lines of the
\* immediate entries of every printed image are the ones of such a lookup.
C22_FormatterLookupOrder ==
    /\ (pc = "isatty" /\ stdin.tty) =>
          \A identifier \in LookupIdentifiers, key_type \in 0..3, key_id \in 0..63 :
              LookupOrder(detect_key_formatter(identifier, key_type, key_id),
                          identifier, key_type, key_id)
    /\ AllPrinted => EntriesLookedUp(out)

\* C22 happens: a unit directory of SBP-2 is printed whose logical unit number
\* entry was found in the table of the spec and shows its name, and whose
\* specifier id entry, which that table does not have, was found in the CSR
\* table and shows no spec name.
C22_Witness ==
    /\ AllPrinted
    /\ \E k, l \in 1..Len(out) :
          /\ out[k].kind = "immediate"
          /\ out[k].spec = "SBP-2"
          /\ out[k].name = "logical unit number"
          /\ out[l].kind = "immediate"
          /\ out[l].quad = <<18, 0, 96, 158>>
          /\ out[l].spec = NULL
          /\ out[l].name = "specifier id"
          /\ \A m \in 1..Len(out) :
                (k <= m /\ m <= l) \/ (l <= m /\ m <= k) => out[m].kind # "empty"

-----------------------------------------------------------------------------
\* The leaf and directory blocks of the list whose walk has a defined start:
\* the leaves, and the directories under a key id of the switch of
\* format_directory_block().
WalkedBlocks ==
    { k \in 1..Len(head) :
        \/ head[k].block_type = IEEE1212_LEAF_BLOCK
        \/ /\ head[k].block_type = IEEE1212_DIRECTORY_BLOCK
           /\ head[k].key_id \in BaseIsParent \cup BaseIsDirectory }

\* Where the walk of a block starts: the parent of a leaf, the directory or its
\* parent for a directory.
WalkStart(block) ==
    IF block.block_type = IEEE1212_DIRECTORY_BLOCK /\ block.key_id \in BaseIsDirectory
    THEN block.offset ELSE block.parent

RECURSIVE WalkEntries(_, _)
\* The entries of the chain of directories walked upward from base, in walk
\* order.
WalkEntries(list, base) ==
    IF base = NoParent
    THEN <<>>
    ELSE LET b == block_at(list, base)
         IN  [i \in 1..(b.length \div 4 - 1) |->
                 decode_directory_entry(QuadletAt(data, junk, b.offset + 4 * i))]
             \o WalkEntries(list, IF b.block_type = IEEE1212_DIRECTORY_BLOCK
                                  THEN b.parent ELSE NoParent)

\* The immediate entries with the key id among the entries.
ImmediateEntries(entries, key_id) ==
    SelectSeq(entries, LAMBDA e : e.key_type = KEY_TYPE_IMMEDIATE /\ e.key_id = key_id)

\* The value of the first of the entries, or none.
FirstValue(entries) == IF entries = <<>> THEN INVALID_KEY_VALUE ELSE entries[1].value

\* The identifier accumulated for a block.
Accumulated(block) ==
    inherit_identifier(spec_identifier(INVALID_KEY_VALUE, INVALID_KEY_VALUE),
                       data, junk, head, WalkStart(block))

\* C23. VENDOR_INFO is only a last-resort seed: when the chain of directories
\* walked upward for a leaf or directory block has an immediate SPECIFIER_ID
\* entry, the accumulated specifier_id is the value of the first SPECIFIER_ID
\* entry in walk order, whatever immediate VENDOR_INFO entries the chain has
\* and wherever they are; the value of the first VENDOR_INFO entry is the
\* specifier_id only when the chain has no SPECIFIER_ID entry; VENDOR_INFO
\* never affects version, which is the value of the first VERSION entry.
C23_VendorLastResort ==
    AllPrinted =>
        \A k \in WalkedBlocks :
            LET entries == WalkEntries(head, WalkStart(head[k]))
                specifiers == ImmediateEntries(entries, KEY_ID_CSR_SPECIFIER_ID)
                vendors == ImmediateEntries(entries, KEY_ID_CSR_VENDOR_INFO)
                versions == ImmediateEntries(entries, KEY_ID_CSR_VERSION)
            IN  /\ Accumulated(head[k]).specifier_id =
                       (IF specifiers # <<>> THEN FirstValue(specifiers)
                                             ELSE FirstValue(vendors))
                /\ Accumulated(head[k]).version = FirstValue(versions)

-----------------------------------------------------------------------------
\* C24. Defined walk start for every directory: for a directory block
\* referenced under any key id in 0..63, format_directory_block() has assigned
\* the block where the walk starts, the directory itself or its parent, before
\* the loop reads it; the walk never starts from an unassigned value, and so
\* printing never ends with a signal.
C24_DefinedWalkStart ==
    /\ status # SIGSEGV
    /\ ( /\ pc = "print"
         /\ cursor <= Len(head)
         /\ head[cursor].block_type = IEEE1212_DIRECTORY_BLOCK )
       => /\ head[cursor].key_id \in 0..63
          /\ directory_bases(head, head[cursor])
                \in { {head[cursor].offset}, {head[cursor].parent} }

-----------------------------------------------------------------------------
\* The offsets of the list are strictly ascending.
StrictlyAscending(list) ==
    \A k \in 1..(Len(list) - 1) : list[k].offset < list[k + 1].offset

\* C25. Strictly ascending set: after every insertion of discovery and of the
\* orphan fill, and so in every state, the block sequence is in strictly
\* ascending offset order with the bus information block at offset 0 first;
\* no two blocks, orphan or not, share an offset.
C25_StrictlyAscending ==
    head # <<>> =>
        /\ head[1].block_type = IEEE1212_BUS_INFO_BLOCK
        /\ head[1].offset = 0
        /\ StrictlyAscending(head)
        /\ \A k, l \in 1..Len(head) : head[k].offset = head[l].offset => k = l

\* C25 happens: the root directory references a directory and then a leaf
\* before it; the leaf was inserted before the directory, and the orphan block
\* has just been inserted between the two.
C25_Witness ==
    /\ ev = "fill:orphan"
    /\ Len(head) = 5
    /\ head[2].block_type = IEEE1212_ROOT_DIRECTORY_BLOCK
    /\ head[3].block_type = IEEE1212_LEAF_BLOCK
    /\ head[4].block_type = ORPHAN_BLOCK
    /\ head[5].block_type = IEEE1212_DIRECTORY_BLOCK
    /\ head[2].offset + 4 + 4 * EntryOf(head[2], 1).value = head[5].offset
    /\ head[2].offset + 8 + 4 * EntryOf(head[2], 2).value = head[3].offset

-----------------------------------------------------------------------------
\* The lines of the output that show a logical unit number of SBP.
LogicalUnitLines(o) ==
    { k \in 1..Len(o) :
        /\ o[k].kind = "immediate"
        /\ o[k].spec \in {"SBP-2", "AV/C over SBP-3"}
        /\ o[k].name = "logical unit number" }

\* The device_type field of a logical unit number entry, bits 20..16.
DeviceTypeField(quadlet) == quadlet[2] % 32

\* C26. SBP logical unit number type decoding: for an immediate
\* LOGICAL_UNIT_NUMBER entry under a registered SBP spec the rendered device
\* type is determined by the device_type field of the value (bits 20..16):
\* field 0 renders "type Disk", the other known fields render their own names
\* (0x05 "CD/DVD"), and fields outside the known table reach the
\* "type w.k.LUN", "type unknown" or hex annotations.
C26_LogicalUnitType ==
    AllPrinted =>
        \A k \in LogicalUnitLines(out) :
            LET field == DeviceTypeField(out[k].quad)
                shown == out[k].info[1]
            IN  IF field < Len(device_types)
                THEN shown.type = device_types[field + 1]
                ELSE \/ shown.type \in {"w.k.LUN", "unknown"}
                     \/ shown.type = "%02x?" /\ shown.type_number = field

-----------------------------------------------------------------------------
\* The lines of the text quadlets of the textual descriptor leaves.
TextLines(o) == { k \in 1..Len(o) : o[k].kind = "text" }

RECURSIVE BeforeFirstNul(_, _)
\* The bytes of the quadlet from byte i on that precede its first '\0' byte.
BeforeFirstNul(quadlet, i) ==
    IF i > 4 \/ quadlet[i] = 0
    THEN <<>>
    ELSE <<quadlet[i]>> \o BeforeFirstNul(quadlet, i + 1)

RECURSIVE WithoutNul(_, _)
\* The bytes of the quadlet from byte i on that are not '\0'.
WithoutNul(quadlet, i) ==
    IF i > 4 THEN <<>>
    ELSE (IF quadlet[i] = 0 THEN <<>> ELSE <<quadlet[i]>>) \o WithoutNul(quadlet, i + 1)

\* The line of a text quadlet shows the string between quotes, and no string
\* when the quadlet is zero.
ShowsString(line, string) ==
    IF line.quad = <<0, 0, 0, 0>>
    THEN line.fmt = NULL /\ line.info = <<>>
    ELSE line.fmt = "quoted" /\ line.info = string

\* C27, as the specification has it.  Textual descriptor characters: in each
\* text quadlet of a textual descriptor leaf the four bytes are taken most
\* significant first and a '\0' byte terminates the visible run: the rendered
\* string is exactly the bytes preceding the first '\0' byte of the quadlet,
\* and no byte following a '\0' is shown; an all-zero quadlet renders no
\* string.
C27_NulTerminates ==
    AllPrinted =>
        \A k \in TextLines(out) : ShowsString(out[k], BeforeFirstNul(out[k].quad, 1))

\* C27, as the code has it: the rendered string is the bytes of the quadlet
\* that are not '\0', most significant first; a '\0' byte is not shown and
\* the bytes that follow it are; an all-zero quadlet renders no string.
C27_NulSkipped ==
    AllPrinted =>
        \A k \in TextLines(out) : ShowsString(out[k], WithoutNul(out[k].quad, 1))

\* C27 happens: a textual descriptor leaf is printed whose text quadlet has a
\* letter after a '\0' byte.
C27_Witness ==
    /\ AllPrinted
    /\ \E k \in TextLines(out) :
          /\ out[k].quad = <<65, 0, 66, 0>>
          /\ out[k].info = <<65, 66>>
          /\ out[k - 1].kind = "text_header"

-----------------------------------------------------------------------------
\* The leaf and directory blocks of the list.
ReferencedBlocks ==
    { k \in 1..Len(head) :
        head[k].block_type \in {IEEE1212_LEAF_BLOCK, IEEE1212_DIRECTORY_BLOCK} }

\* The blocks of the list at an offset.
BlocksAt(offset) == { k \in 1..Len(head) : head[k].offset = offset }

RECURSIVE ParentChain(_, _)
\* The offsets met by following the parent links from a block, at most n of
\* them.
ParentChain(block, n) ==
    IF n = 0 \/ block.parent = NoParent \/ BlocksAt(block.parent) = {}
    THEN <<>>
    ELSE <<block.parent>> \o ParentChain(block_at(head, block.parent), n - 1)

\* The parent of every leaf and directory block is a root directory or
\* directory block of the list at a lower offset, and the parent links lead to
\* the root directory without repetition.
ParentChainToRoot ==
    \A k \in ReferencedBlocks :
        LET chain == ParentChain(head[k], Len(head))
        IN  /\ BlocksAt(head[k].parent) # {}
            /\ block_at(head, head[k].parent).block_type
                   \in {IEEE1212_ROOT_DIRECTORY_BLOCK, IEEE1212_DIRECTORY_BLOCK}
            /\ head[k].parent < head[k].offset
            /\ chain # <<>>
            /\ block_at(head, chain[Len(chain)]).block_type = IEEE1212_ROOT_DIRECTORY_BLOCK
            /\ \A i, l \in 1..Len(chain) : chain[i] = chain[l] => i = l

\* The directories whose entries are being visited are distinct, each is a
\* directory of the list, and each is below the one that referenced it.
ActivationsDistinct ==
    \A i \in 1..Len(stack) :
        /\ BlocksAt(stack[i].parent) # {}
        /\ \A l \in 1..Len(stack) : i < l => stack[i].parent < stack[l].parent

\* A visit starts for a directory that was not listed, in the step that lists
\* it: a listed directory is never visited again.
VisitedWhenListed ==
    Len(stack') > Len(stack) =>
        /\ BlocksAt(Top(stack').parent) = {}
        /\ \E k \in 1..Len(head') : head'[k].offset = Top(stack').parent

\* Discovery is under way.
Discovering == pc \in {"detect_bus_info", "detect_root", "detect_entries"}

RECURSIVE PendingIterations(_, _)
\* The iterations left in the loops of the activations from the i-th on, and
\* one return for each.
PendingIterations(stk, i) ==
    IF i > Len(stk) THEN 0
    ELSE (IF stk[i].quadlet_count > stk[i].i THEN stk[i].quadlet_count - stk[i].i ELSE 0)
         + 1 + PendingIterations(stk, i + 1)

\* What bounds the steps discovery has left: every offset of the input that is
\* not listed can start one visit of at most length / 4 iterations, and the
\* visits under way have their iterations left.
DiscoveryMeasure(list, stk) ==
    Cardinality({ o \in 0..(length - 1) : \A k \in 1..Len(list) : list[k].offset # o })
        * (length \div 4 + 2)
    + PendingIterations(stk, 1)

\* Every step of discovery that does not end it lowers the measure, which is
\* never negative: discovery takes finitely many steps.
MeasureDecreases ==
    (Discovering /\ Discovering') =>
        /\ DiscoveryMeasure(head', stack') < DiscoveryMeasure(head, stack)
        /\ DiscoveryMeasure(head', stack') >= 0

\* C28. Discovery terminates and builds a parent chain without forest: every
\* leaf or directory block discovered has an offset above the offset of its
\* parent, the parent is a root directory or directory block of the set,
\* following parent links from any block reaches the root directory in
\* finitely many steps without repetition, each directory is visited at most
\* once, and discovery terminates: each of its steps lowers a measure that is
\* a natural number.
C28_ParentChain ==
    /\ [](ParentChainToRoot /\ ActivationsDistinct)
    /\ [][VisitedWhenListed /\ MeasureDecreases]_vars

\* C28 happens: discovery is over with a directory below a directory below the
\* root directory, and a leaf or directory in the lower one.
C28_Witness ==
    /\ pc = "normalize"
    /\ \E k, l \in ReferencedBlocks :
          /\ head[k].block_type = IEEE1212_DIRECTORY_BLOCK
          /\ head[l].parent = head[k].offset
          /\ Len(ParentChain(head[l], Len(head))) = 2

-----------------------------------------------------------------------------
(* The byte offsets of the quadlets that the next step of main() reads from *)
(* data[], for the steps named in C29.                                      *)

\* bus_info_block_is_big_endian(): ((uint32_t *)data)[offset + 1], whatever
\* the length.
reads_bus_info_block_is_big_endian == IF pc = "endian" THEN {4} ELSE {}

\* detect_ieee1212_blocks(): the header of the bus information block, then the
\* header at the end of that block, each read before its length is compared
\* with the input length.
reads_detect_ieee1212_blocks ==
    IF pc = "detect_bus_info" THEN {0}
    ELSE IF pc = "detect_root" THEN {head[1].length}
    ELSE {}

\* detect_ieee1212_directory_entries(): the entry, and the header of the block
\* it references when block_offset < length.
reads_detect_ieee1212_directory_entries ==
    IF pc = "detect_entries" /\ stack # <<>> /\ Top(stack).i < Top(stack).quadlet_count
    THEN LET entry_offset == Top(stack).directory_offset + Top(stack).i * 4
             e == decode_directory_entry(QuadletAt(data, junk, entry_offset))
             block_offset == entry_offset + 4 * e.value
         IN  {entry_offset}
             \cup (IF e.key_type \in {KEY_TYPE_LEAF, KEY_TYPE_DIRECTORY}
                      /\ block_offset < length
                   THEN {block_offset} ELSE {})
    ELSE {}

\* format_bus_info_block(): quadlet[0] to quadlet[4], and the quadlets of the
\* block after them.
reads_format_bus_info_block ==
    IF /\ pc = "print"
       /\ cursor <= Len(head)
       /\ head[cursor].block_type = IEEE1212_BUS_INFO_BLOCK
    THEN {0, 4, 8, 12, 16} \cup { 4 * i : i \in 0..(head[cursor].length \div 4 - 1) }
    ELSE {}

\* C29. Reads stay inside the input: for every input length, every quadlet
\* read by endian detection, block length detection, directory entry discovery
\* and the bus information renderer is at a byte offset o with o + 4 <= length:
\* the bus name quadlet is read only when length >= 8, the root directory
\* header only when the bus information block ends before the end of the
\* input, and the renderer reads quadlets 1..4 only when they exist.
C29_ReadsInsideInput ==
    \A o \in reads_bus_info_block_is_big_endian \cup reads_detect_ieee1212_blocks
              \cup reads_detect_ieee1212_directory_entries
              \cup reads_format_bus_info_block :
        o + 4 <= length

-----------------------------------------------------------------------------
(* The lines a renderer writes into buf[], against the size of buf[].       *)

\* The renderers of leaf content that print_blocks() can reach through
\* format_leaf_block().
LeafContentRenderers ==
    { "format_csr_descriptor_leaf_content", "format_csr_keyword_leaf_content",
      "format_csr_unit_location_leaf_content", "format_csr_eui64_leaf_content",
      "format_iidc_104_leaf_content", "format_unspecified_leaf_content" }

\* The lines of a leaf of quadlet_count quadlets under the renderer: title,
\* rule, header, and the content of the quadlets after the header.
LeafLines(name, quadlet_count) ==
    3 + Len(format_content_leaf(name, data, junk, 4, quadlet_count - 1))

\* The lines the block at the cursor is rendered into, for every value the
\* renderer can be given.
RenderedLines ==
    { Len(format(data, junk, head, head[cursor], base, length)) :
        base \in (IF head[cursor].block_type = IEEE1212_DIRECTORY_BLOCK
                  THEN directory_bases(head, head[cursor]) ELSE {NoParent})
                 \ {WildPointer} }

\* C30: print_blocks() allocates (the largest length / 4 of the blocks) + 10
\* line buffers, and the renderer of every block of the list writes at most
\* that many lines; so does every leaf renderer for a leaf of every length,
\* the ones that write a fixed number of lines included.
C30_LineBufferBound ==
    /\ (pc = "print" /\ cursor <= Len(head)) =>
           \A n \in RenderedLines : n <= print_blocks_lines(head)
    /\ pc = "print_alloc" =>
           \A name \in LeafContentRenderers : \A quadlet_count \in 1..(MaxQuads + 1) :
               LeafLines(name, quadlet_count) <= quadlet_count + 10

\* A bus information block of generation > 0 was rendered into 8 lines, the
\* capabilities on two of them, from a buffer of 15: more lines than the 5
\* quadlets of the largest block of the list.
C30_Witness ==
    /\ AllPrinted
    /\ head[1].block_type = IEEE1212_BUS_INFO_BLOCK
    /\ print_blocks_lines(head) = 15
    /\ Len(out) > 8
    /\ out[9].kind = "empty"
    /\ \A k \in 1..8 : out[k].kind # "empty"

=============================================================================
